---- MODULE Spec2Model ----
(***************************************************************************)
(* A model of the parallel document-indexing pipeline of                   *)
(* DeanIA/modal-ml-sandbox: the scan / plan / embed / finalize run of      *)
(* IndexPipeline (agents/index_pipeline), the older IndexClient with its   *)
(* pkl-staging workers and finalize_index (agents/rag_agent), and the CLI  *)
(* entry points of scripts/index_rag.py.                                   *)
(***************************************************************************)
EXTENDS Integers, Sequences, FiniteSets, TLC

(***************************************************************************)
(* Bounds of the model.                                                    *)
(***************************************************************************)
MaxWorkers == 2     \* N_WORKERS ranges over 1..MaxWorkers
MaxPerGpu == 2      \* WORKERS_PER_GPU ranges over 1..MaxPerGpu
MaxMtime == 2       \* st_mtime_ns ranges over 1..MaxMtime
MaxSize == 2        \* st_size ranges over 1..MaxSize
MaxEvents == 2      \* entry-point calls and changes of the document store
                    \* in one behaviour

(***************************************************************************)
(* Names.  A file name is a stem and an extension, so that                 *)
(* f.endswith(".zip") is computed from the name; an archive member is a    *)
(* name and whether that name ends in "/".                                 *)
(***************************************************************************)
File(s, e) == [stem |-> s, ext |-> e]
Member(n, d) == [name |-> n, dir |-> d]

\* The universe of document names, in the order sorted() gives them.
AllFilesSorted ==
    << File("a", "txt"), File("b", "txt"), File("c", "txt"),
       File("y", "zip"), File("z", "zip") >>

\* The universe of archive members, in archive order.
AllMembers ==
    << Member("e1", FALSE), Member("d", TRUE), Member("e2", FALSE),
       Member("e3", FALSE) >>

Range(s) == {s[i] : i \in 1..Len(s)}
AllFiles == Range(AllFilesSorted)

\* f.endswith(".zip")
EndsWithZip(f) == f.ext = "zip"
ZipFiles == {f \in AllFiles : EndsWithZip(f)}

\* Subsequences of s (order kept): the lists a sorted listing or a namelist
\* can be.
RECURSIVE SubSeqsOf(_)
SubSeqsOf(s) ==
    IF s = << >> THEN { << >> }
    ELSE LET rest == SubSeqsOf(Tail(s))
         IN  rest \cup { << Head(s) >> \o r : r \in rest }

Min(a, b) == IF a < b THEN a ELSE b

\* math.ceil(a / b) for a >= 0, b > 0
Ceil(a, b) == (a + b - 1) \div b

(***************************************************************************)
(* State.                                                                  *)
(***************************************************************************)
VARIABLES
    N_WORKERS,        \* config: worker-process count
    WORKERS_PER_GPU,  \* config: per-process concurrency
    docs,             \* document store: file name -> (st_mtime_ns, st_size)
    zipNames,         \* zf.namelist() of each archive of the store
    manifest,         \* manifest.json: file name -> fingerprint
    collection,       \* the vector collection: the set of chunk ids in it
    pkl,              \* /data/rag/pending/worker-{id}.pkl: id -> records
    wman,             \* manifest-worker-{id}.json: id -> manifest
    lock,             \* self._lock: the thread holding it, or NoThread
    pc,               \* each caller thread's position in reindex
    call,             \* each caller's argument force
    run,              \* each caller's locals of the run in flight
    ret,              \* what each caller's last reindex returned
    calls,            \* number of reindex calls made so far
    changes,          \* number of changes to the document store so far
    quiet,            \* a run without force has finalized and the store has
                      \* not changed since
    last,             \* the step taken last: a finalize (its force, its
                      \* caller) or another step
    files,            \* planner check: the worklist handed to the planner
    plan,             \* planner check: result of _build_batches
    fan,              \* planner check: batches of _fan_out
    scan_in,          \* scan check: the force flag given to _scan
    scanned,          \* scan check: result of _scan
    scan_seen,        \* scan check: the listing _scan read
    scan_msg,         \* scan check: what _empty_result returned
    manifest_file,    \* what manifest.json is: absent, unparseable, JSON that
                      \* is not an object, or the mapping `manifest`
    content,          \* worker check: what extraction gives for each document
    wpc,              \* worker process: each concurrent embed call's position
    wwork,            \* worker process: each call's work item
    wdone,            \* worker process: documents each call has gone through
    wtotal,           \* worker process: each call's chunk count (total)
    wmine,            \* worker process: the tuples each call has produced
    wflushed,         \* worker process: the tuples each call has upserted
    _pending,         \* worker process: self._pending
    _chroma_lock,     \* worker process: self._chroma_lock, its holder or 0
    texts,            \* _embed_texts: the argument texts
    emb_pc,           \* _embed_texts: position (idle, loop, returned, raised)
    emb_i,            \* _embed_texts: the loop variable i
    all_embeddings,   \* _embed_texts: the local all_embeddings
    requests,         \* _embed_texts: the size of every batch posted so far
    setup_pc,         \* worker process: position in _setup / _wait_for_tei
    elapsed,          \* _wait_for_tei: time.monotonic() - start, in ticks
    tei_up,           \* whether the TEI server accepts connections
    connected,        \* _wait_for_tei: a create_connection has succeeded
    item_pc,          \* worker process: the embed call of a work item
    ml_lock,          \* MlHandler: self._lock, its holder or NoThread
    _sandbox,         \* MlHandler: self._sandbox (none, running, exited)
    stdin,            \* sandbox: the request lines the agent has not read
    _stdout,          \* MlHandler: self._stdout, the lines not yet iterated
    agent,            \* sandbox: the position of main of agent.py
    hpc,              \* MlHandler.handle: each caller's position
    hreq,             \* MlHandler.handle: each caller's request
    hlines,           \* MlHandler.handle: each caller's local lines
    turns             \* number of handle calls made so far

cfgVars == << N_WORKERS, WORKERS_PER_GPU >>
volVars == << docs, zipNames, manifest, collection, pkl, wman >>
drvVars == << lock, pc, call, run, ret, calls, changes, quiet, last >>
planVars == << files, plan, fan >>
scanVars == << scan_in, scanned, scan_seen, scan_msg >>
loadVars == << manifest_file >>
wrkVars == << content, wpc, wwork, wdone, wtotal, wmine, wflushed, _pending,
              _chroma_lock >>
embVars == << texts, emb_pc, emb_i, all_embeddings, requests >>
setupVars == << setup_pc, elapsed, tei_up, connected, item_pc >>
mlVars == << ml_lock, _sandbox, stdin, _stdout, agent, hpc, hreq, hlines,
            turns >>
vars == << cfgVars, volVars, drvVars, planVars, scanVars, loadVars, wrkVars,
          embVars, setupVars, mlVars >>

NoPlan == [raised |-> FALSE, batches |-> << >>, doc_count |-> -1]
NoPath == File("", "")

(***************************************************************************)
(* IndexPipeline._build_batches                                            *)
(***************************************************************************)
FilesItem(paths) ==
    [type |-> "files", paths |-> paths, zip_path |-> NoPath, entries |-> << >>]
ZipItem(zip_path, entries) ==
    [type |-> "zip_entries", paths |-> << >>, zip_path |-> zip_path,
     entries |-> entries]

\* [s[i : i + chunk_size] for i in range(0, len(s), chunk_size)], chunk_size > 0
Slices(s, chunk_size) ==
    [k \in 1..Ceil(Len(s), chunk_size) |->
        SubSeq(s, (k - 1) * chunk_size + 1, Min(k * chunk_size, Len(s)))]

\* entries = [n for n in zf.namelist() if not n.endswith("/")]
EntriesOf(names) == SelectSeq(names, LAMBDA n : ~n.dir)

\* The zip loop of _build_batches.  range(0, 0, 0) raises ValueError: an
\* archive without a non-directory entry gives chunk_size = ceil(0 / n) = 0.
RECURSIVE ZipBatches(_, _, _)
ZipBatches(zips, names, n_batches) ==
    IF zips = << >> THEN [raised |-> FALSE, batches |-> << >>, doc_count |-> 0]
    ELSE LET zip_path == Head(zips)
             entries == EntriesOf(names[zip_path])
             chunk_size == Ceil(Len(entries), n_batches)
         IN  IF chunk_size = 0
             THEN [raised |-> TRUE, batches |-> << >>, doc_count |-> 0]
             ELSE LET rest == ZipBatches(Tail(zips), names, n_batches)
                      sl == Slices(entries, chunk_size)
                      mine == [k \in 1..Len(sl) |-> ZipItem(zip_path, sl[k])]
                  IN  [raised |-> rest.raised,
                       batches |-> IF rest.raised THEN << >>
                                   ELSE mine \o rest.batches,
                       doc_count |-> IF rest.raised THEN 0
                                     ELSE Len(entries) + rest.doc_count]

RegularBatches(regular, n_batches) ==
    IF regular = << >> THEN << >>
    ELSE LET sl == Slices(regular, Ceil(Len(regular), n_batches))
         IN  [k \in 1..Len(sl) |-> FilesItem(sl[k])]

_build_batches(fs, names, n_workers, per_gpu) ==
    LET n_batches == n_workers * per_gpu
        regular == SelectSeq(fs, LAMBDA f : ~EndsWithZip(f))
        zips == SelectSeq(fs, EndsWithZip)
        z == ZipBatches(zips, names, n_batches)
    IN  IF z.raised THEN [raised |-> TRUE, batches |-> << >>, doc_count |-> 0]
        ELSE [raised |-> FALSE,
              batches |-> RegularBatches(regular, n_batches) \o z.batches,
              doc_count |-> Len(regular) + z.doc_count]

(***************************************************************************)
(* IndexClient._fan_out: the batches                                       *)
(***************************************************************************)
FanOutBatches(all_files, n_workers) ==
    Slices(all_files, Ceil(Len(all_files), n_workers))

(***************************************************************************)
(* The document store and the manifest                                     *)
(***************************************************************************)
Stats == [st_mtime_ns : 1..MaxMtime, st_size : 1..MaxSize]

\* Maps (a dict, a directory) are functions on the keys present.
EmptyMap == [x \in {} |-> x]
MapsFrom(K, V) == UNION {[D -> V] : D \in SUBSET K}

\* A fingerprint that leaves the size out.
FingerprintMtimeOnly(stat) == << stat.st_mtime_ns, 1 >>

\* IndexPipeline._fingerprint: f"{stat.st_mtime_ns}:{stat.st_size}"
_fingerprint(stat) == << stat.st_mtime_ns, stat.st_size >>
Fingerprints == {_fingerprint(st) : st \in Stats}

\* dict.get(name): None when the key is absent
None == << >>
Get(m, k) == IF k \in DOMAIN m THEN m[k] ELSE None

\* sorted(p for p in docs_dir.iterdir() if p.is_file())
Listing(d) == SelectSeq(AllFilesSorted, LAMBDA p : p \in DOMAIN d)

\* IndexPipeline._scan: the files to index
_scan(force, d, m) ==
    SelectSeq(Listing(d), LAMBDA p : force \/ Get(m, p) # _fingerprint(d[p]))

\* What manifest.json can be: absent, text that is not JSON, a JSON array
\* ([]), a JSON scalar (a number, null), or the JSON object `manifest`.
ManifestFiles == {"absent", "unparseable", "array", "scalar", "mapping"}

\* IndexPipeline._load_manifest: json.loads(read_text()), and {} when that
\* raises.  JSON that is not an object loads without an exception, as the
\* list or the scalar it is.
_load_manifest(file, m) ==
    IF file = "mapping" THEN [type |-> "dict", entries |-> m]
    ELSE IF file \in {"absent", "unparseable"}
    THEN [type |-> "dict", entries |-> EmptyMap]
    ELSE [type |-> file, entries |-> EmptyMap]

\* _scan raises when manifest.get is evaluated on a value that has no get:
\* `force or manifest.get(p.name) != ...` evaluates it for the first file
\* unless force is set.
ScanRaises(force, d, loaded) ==
    loaded.type # "dict" /\ ~force /\ Listing(d) # << >>

(***************************************************************************)
(* Callers                                                                 *)
(***************************************************************************)
Threads == {"t1", "t2"}
ThreadNo(t) == IF t = "t1" THEN 1 ELSE 2
NoThread == "none"
NoCall == [force |-> FALSE]
\* What reindex returns: the kind of message and the counts it states.
Ret(kind, chunks, nfiles, failed) ==
    [kind |-> kind, chunks |-> chunks, files |-> nfiles, failed |-> failed]
NoRet == Ret("none", 0, 0, 0)
\* The locals of a run, and what the run has done so far (force: the flag it
\* was called with; quiet: whether it began on a store unchanged since a
\* finalized run; finalized, manifest_changed: what its finalize did).
NoRun == [force |-> FALSE, files |-> << >>, batches |-> << >>, doc_count |-> 0,
          items |-> << >>, nonce |-> 0, quiet |-> FALSE, finalized |-> FALSE,
          manifest_changed |-> FALSE, result |-> NoRet]
NoFan == << << >> >>
OtherOp == [op |-> "other", force |-> FALSE, by |-> NoThread]
FinalizeOp(force, by) == [op |-> "finalize", force |-> force, by |-> by]
NoScan == << NoPath >>
ScanRaised == << File("raised", "") >>

InitCfg == N_WORKERS \in 1..MaxWorkers /\ WORKERS_PER_GPU \in 1..MaxPerGpu
IdleVolume ==
    /\ docs = EmptyMap
    /\ zipNames = [z \in ZipFiles |-> << >>]
    /\ manifest = EmptyMap
    /\ collection = {}
    /\ pkl = EmptyMap
    /\ wman = EmptyMap
IdleDriver ==
    /\ lock = NoThread
    /\ pc = [t \in Threads |-> "idle"]
    /\ call = [t \in Threads |-> NoCall]
    /\ run = [t \in Threads |-> NoRun]
    /\ ret = [t \in Threads |-> NoRet]
    /\ calls = 0
    /\ changes = 0
    /\ quiet = FALSE
    /\ last = OtherOp
IdlePlan == files = << >> /\ plan = NoPlan /\ fan = NoFan
IdleScan ==
    scan_in = FALSE /\ scanned = NoScan /\ scan_seen = << >> /\ scan_msg = NoRet

\* The concurrent embed calls one worker process takes
\* (modal.concurrent(max_inputs=WORKERS_PER_GPU)); Init of the other
\* specifications leaves the process without a call.
Calls == {1, 2}
NoWork ==
    [type |-> "none", paths |-> << >>, zip_path |-> NoPath, entries |-> << >>]
\* MlHandler after __init__, no call made.
NoAgent == [pc |-> "stdin", req |-> 0, printed |-> 0]
IdleMl ==
    /\ ml_lock = NoThread /\ _sandbox = "none"
    /\ stdin = << >> /\ _stdout = << >> /\ agent = NoAgent
    /\ hpc = [t \in Threads |-> "idle"]
    /\ hreq = [t \in Threads |-> 0]
    /\ hlines = [t \in Threads |-> << >>]
    /\ turns = 0
\* A worker process that has been set up and has no call.
IdleSetup ==
    /\ setup_pc = "ready" /\ elapsed = 0 /\ tei_up = TRUE
    /\ connected = TRUE /\ item_pc = "none"
IdleEmbed ==
    /\ texts = << >> /\ emb_pc = "idle" /\ emb_i = 0
    /\ all_embeddings = << >> /\ requests = << >>
IdleWorker ==
    /\ content = EmptyMap
    /\ wpc = [c \in Calls |-> "idle"]
    /\ wwork = [c \in Calls |-> NoWork]
    /\ wdone = [c \in Calls |-> 0]
    /\ wtotal = [c \in Calls |-> 0]
    /\ wmine = [c \in Calls |-> {}]
    /\ wflushed = [c \in Calls |-> {}]
    /\ _pending = {}
    /\ _chroma_lock = 0

(***************************************************************************)
(* The planner on its own: every worklist a scan can return, every         *)
(* namelist, every pool size.                                              *)
(***************************************************************************)
\* The worked scenario: three new .txt files and one archive of 250 entries.
ScenarioFiles ==
    << File("a", "txt"), File("b", "txt"), File("c", "txt"), File("z", "zip") >>
ScenarioNames ==
    [z \in ZipFiles |->
        IF z = File("z", "zip")
        THEN [i \in 1..250 |-> Member(ToString(i), FALSE)]
        ELSE << >>]

InitPlan ==
    /\ InitCfg
    /\ \/ /\ files \in SubSeqsOf(AllFilesSorted) \ { << >> }
          /\ zipNames \in [ZipFiles -> SubSeqsOf(AllMembers)]
       \/ /\ files = ScenarioFiles
          /\ zipNames = ScenarioNames
    /\ docs = EmptyMap /\ manifest = EmptyMap /\ collection = {}
    /\ pkl = EmptyMap /\ wman = EmptyMap
    /\ plan = NoPlan /\ fan = NoFan
    /\ IdleDriver /\ IdleScan /\ IdleWorker /\ IdleEmbed /\ IdleSetup /\ IdleMl
    /\ manifest_file = "absent"

PlanStep ==
    /\ plan = NoPlan
    /\ plan' = _build_batches(files, zipNames, N_WORKERS, WORKERS_PER_GPU)
    /\ UNCHANGED << cfgVars, volVars, drvVars, files, fan, scanVars, loadVars,
                    wrkVars, embVars, setupVars, mlVars >>

FanStep ==
    /\ fan = NoFan
    /\ fan' = FanOutBatches(files, N_WORKERS)
    /\ UNCHANGED << cfgVars, volVars, drvVars, files, plan, scanVars, loadVars,
                    wrkVars, embVars, setupVars, mlVars >>

NextPlan == PlanStep \/ FanStep
SpecPlan == InitPlan /\ [][NextPlan]_vars

\* Number of (item, position) places of the plan that hold regular file f
FilePlaces(batches, f) ==
    Cardinality({ <<k, j>> \in (1..Len(batches)) \X (1..Len(files)) :
        /\ batches[k].type = "files"
        /\ j <= Len(batches[k].paths)
        /\ batches[k].paths[j] = f })

\* Number of places of the plan that hold member e of archive z
EntryPlaces(batches, z, e) ==
    Cardinality({ kj \in UNION {{ <<k, j>> : j \in 1..Len(batches[k].entries)} :
                                    k \in 1..Len(batches)} :
        /\ batches[kj[1]].type = "zip_entries"
        /\ batches[kj[1]].zip_path = z
        /\ batches[kj[1]].entries[kj[2]] = e })

PlanPartitions ==
    /\ \A f \in Range(files) : ~EndsWithZip(f) => FilePlaces(plan.batches, f) = 1
    /\ \A z \in Range(files) : EndsWithZip(z) =>
          \A e \in Range(zipNames[z]) : ~e.dir => EntryPlaces(plan.batches, z, e) = 1
    /\ \A k \in 1..Len(plan.batches) :
          /\ Range(plan.batches[k].paths) \subseteq
                {f \in Range(files) : ~EndsWithZip(f)}
          /\ plan.batches[k].type = "zip_entries" =>
                /\ plan.batches[k].zip_path \in Range(files)
                /\ Range(plan.batches[k].entries) \subseteq
                      {e \in Range(zipNames[plan.batches[k].zip_path]) : ~e.dir}

FanPartitions ==
    \A f \in Range(files) :
        Cardinality({ <<k, j>> \in (1..Len(fan)) \X (1..Len(files)) :
            j <= Len(fan[k]) /\ fan[k][j] = f }) = 1

\* C1: for every worklist and every pool size, the work items the planner
\* builds partition the input exactly: each regular file is in exactly one
\* 'files' item and each non-directory member of each archive is in exactly
\* one 'zip_entries' slice of that archive; the file batches of _fan_out
\* partition the file list likewise.
C1_ItemsPartitionInput ==
    /\ plan # NoPlan => PlanPartitions
    /\ fan # NoFan => FanPartitions

\* The part of C1 the code keeps: a plan that was built partitions its input.
BuiltPlanPartitions ==
    /\ (plan # NoPlan /\ ~plan.raised) => PlanPartitions
    /\ fan # NoFan => FanPartitions

\* C2: for every worklist, also one that mixes regular files and archives,
\* the number of work items of one run is at most the configured parallelism,
\* worker-process count x per-process concurrency.
C2_ItemsWithinParallelism ==
    plan # NoPlan => Len(plan.batches) <= N_WORKERS * WORKERS_PER_GPU

\* The part of C2 the code keeps: each kind of input on its own stays
\* within the pool.
ItemsWithinParallelismPerSource ==
    plan # NoPlan =>
        /\ Cardinality({k \in 1..Len(plan.batches) : plan.batches[k].type = "files"})
              <= N_WORKERS * WORKERS_PER_GPU
        /\ \A z \in ZipFiles :
              Cardinality({k \in 1..Len(plan.batches) :
                              plan.batches[k].zip_path = z})
                 <= N_WORKERS * WORKERS_PER_GPU

ScenarioIn ==
    /\ files = ScenarioFiles
    /\ zipNames = ScenarioNames
    /\ N_WORKERS * WORKERS_PER_GPU = 4

\* C16: for the worklist of the three new regular files a, b, c and one
\* archive of 250 entries on a pool of 4 slots, the planner emits exactly 4
\* work items: one 'files' item holding [a, b, c] and three slices of the
\* archive of 62 to 63 entries each.
C16_ScenarioFourItems ==
    (plan # NoPlan /\ ScenarioIn) =>
        /\ ~plan.raised
        /\ Len(plan.batches) = 4
        /\ plan.batches[1] =
              FilesItem(<< File("a", "txt"), File("b", "txt"), File("c", "txt") >>)
        /\ \A k \in 2..4 :
              /\ plan.batches[k].type = "zip_entries"
              /\ Len(plan.batches[k].entries) \in 62..63

\* What the planner does emit for the scenario: seven items, three 'files'
\* items of one file each and four slices of 63, 63, 63 and 61 entries.
ScenarioSevenItems ==
    (plan # NoPlan /\ ScenarioIn) =>
        /\ ~plan.raised
        /\ Len(plan.batches) = 7
        /\ \A k \in 1..3 : plan.batches[k] = FilesItem(<< ScenarioFiles[k] >>)
        /\ [k \in 4..7 |-> Len(plan.batches[k].entries)]
              = (4 :> 63) @@ (5 :> 63) @@ (6 :> 63) @@ (7 :> 61)
        /\ plan.doc_count = 253

(***************************************************************************)
(* The scan on its own: every listing, every manifest, both force values.  *)
(***************************************************************************)
ScanFiles == {File("a", "txt"), File("z", "zip")}

InitScan ==
    /\ InitCfg
    /\ docs \in MapsFrom(ScanFiles, Stats)
    /\ manifest \in MapsFrom(ScanFiles, Fingerprints)
    /\ zipNames = [z \in ZipFiles |-> << >>]
    /\ collection = {} /\ pkl = EmptyMap /\ wman = EmptyMap
    /\ scan_in \in BOOLEAN
    /\ scanned = NoScan
    /\ scan_seen = << >> /\ scan_msg = NoRet
    /\ manifest_file = "mapping"
    /\ IdleDriver /\ IdlePlan /\ IdleWorker /\ IdleEmbed /\ IdleSetup /\ IdleMl

ScanStep ==
    /\ scanned = NoScan
    /\ scanned' = _scan(scan_in, docs, manifest)
    /\ UNCHANGED << cfgVars, volVars, drvVars, planVars, scan_in, scan_seen,
                    scan_msg, loadVars, wrkVars, embVars, setupVars, mlVars >>

NextScan == ScanStep
SpecScan == InitScan /\ [][NextScan]_vars

\* C3: Scan returns exactly the files of the listing for which force is true
\* or the manifest has no entry or the entry's mtime or size differs from the
\* file's; each once, in listing order.
C3_ScanSelectsChanged ==
    scanned # NoScan =>
        /\ Range(scanned) =
              {f \in DOMAIN docs :
                  \/ scan_in
                  \/ f \notin DOMAIN manifest
                  \/ manifest[f][1] # docs[f].st_mtime_ns
                  \/ manifest[f][2] # docs[f].st_size}
        /\ \E idx \in [1..Len(scanned) -> 1..Len(AllFilesSorted)] :
              /\ \A i \in 1..Len(scanned) : AllFilesSorted[idx[i]] = scanned[i]
              /\ \A i, j \in 1..Len(scanned) : i < j => idx[i] < idx[j]

\* Without force, a file whose size alone changed is selected and a file
\* whose mtime and size are those of the manifest is not.
C3_Witness ==
    /\ scanned # NoScan
    /\ ~scan_in
    /\ \E f, g \in DOMAIN docs \cap DOMAIN manifest :
          /\ manifest[f][1] = docs[f].st_mtime_ns
          /\ manifest[f][2] # docs[f].st_size
          /\ f \in Range(scanned)
          /\ manifest[g] = << docs[g].st_mtime_ns, docs[g].st_size >>
          /\ g \notin Range(scanned)

(***************************************************************************)
(* The scan with its read of manifest.json, and the message reindex        *)
(* returns when the scan selects nothing: every listing, every state of    *)
(* the manifest file, both force values.  _scan and _empty_result each     *)
(* list the store, so a file can be shared in between.  The store is       *)
(* append-only and the manifest is written from a listing of it, so the    *)
(* names of a manifest are names of the store.                             *)
(***************************************************************************)
\* A fallback message that never tells the two cases apart.
EmptyResultNoDocuments(d, loaded) == Ret("no_documents", 0, 0, 0)

\* IndexPipeline._empty_result: has_indexed = any(p.name in manifest ...).
\* `in` is evaluated for the first file, if there is one: it is False on
\* an empty list and raises TypeError on a number or None.
_empty_result(d, loaded) ==
    IF Listing(d) = << >> THEN Ret("no_documents", 0, 0, 0)
    ELSE IF loaded.type = "scalar" THEN Ret("raised", 0, 0, 0)
    ELSE IF \E p \in DOMAIN d : p \in DOMAIN loaded.entries
    THEN Ret("already_indexed", 0, 0, 0)
    ELSE Ret("no_documents", 0, 0, 0)

InitLoad ==
    /\ N_WORKERS = 1 /\ WORKERS_PER_GPU = 1
    /\ docs \in MapsFrom(ScanFiles, Stats)
    /\ manifest_file \in ManifestFiles
    /\ manifest \in IF manifest_file = "mapping"
                    THEN MapsFrom(DOMAIN docs, Fingerprints)
                    ELSE {EmptyMap}
    /\ zipNames = [z \in ZipFiles |-> << >>]
    /\ collection = {} /\ pkl = EmptyMap /\ wman = EmptyMap
    /\ scan_in \in BOOLEAN
    /\ scanned = NoScan
    /\ scan_seen = << >> /\ scan_msg = NoRet
    /\ IdleDriver /\ IdlePlan /\ IdleWorker /\ IdleEmbed /\ IdleSetup /\ IdleMl

\* reindex: files = self._scan(force, _status)
LoadScanStep ==
    /\ scanned = NoScan
    /\ LET loaded == _load_manifest(manifest_file, manifest) IN
       scanned' = IF ScanRaises(scan_in, docs, loaded) THEN ScanRaised
                  ELSE _scan(scan_in, docs, loaded.entries)
    /\ scan_seen' = Listing(docs)
    /\ UNCHANGED << cfgVars, volVars, drvVars, planVars, scan_in, scan_msg,
                    loadVars, wrkVars, embVars, setupVars, mlVars >>

\* A file is shared into the store after _scan has listed it and before
\* _empty_result lists it.
LoadAddFile(f) ==
    /\ scanned = << >>
    /\ scan_msg = NoRet
    /\ f \notin DOMAIN docs
    /\ docs' = (f :> [st_mtime_ns |-> 1, st_size |-> 1]) @@ docs
    /\ UNCHANGED << cfgVars, zipNames, manifest, collection, pkl, wman,
                    drvVars, planVars, scanVars, loadVars, wrkVars, embVars, setupVars, mlVars >>

\* reindex: if not files: return self._empty_result()
EmptyResultStep ==
    /\ scanned = << >>
    /\ scan_msg = NoRet
    /\ scan_msg' = _empty_result(docs, _load_manifest(manifest_file, manifest))
    /\ UNCHANGED << cfgVars, volVars, drvVars, planVars, scan_in, scanned,
                    scan_seen, loadVars, wrkVars, embVars, setupVars, mlVars >>

NextLoad ==
    \/ LoadScanStep
    \/ \E f \in ScanFiles : LoadAddFile(f)
    \/ EmptyResultStep
SpecLoad == InitLoad /\ [][NextLoad]_vars

\* C12: when Scan selects nothing (and the manifest loads as a mapping), the
\* message reindex returns is the 'no documents' message if and only if the
\* store Scan listed holds no file, and the 'all already indexed' message if
\* and only if it holds files, which are then all already indexed.
C12_EmptyResultTellsEmptyFromIndexed ==
    (scan_msg # NoRet /\ manifest_file \notin {"array", "scalar"}) =>
        /\ scan_msg.kind = "no_documents" <=> scan_seen = << >>
        /\ scan_msg.kind = "already_indexed" <=>
              /\ scan_seen # << >>
              /\ \A p \in Range(scan_seen) :
                    /\ p \in DOMAIN manifest
                    /\ manifest[p] = << docs[p].st_mtime_ns, docs[p].st_size >>

\* Both messages in one behaviour is not possible; the store holds two
\* indexed files, a scan without force selected nothing and the message is
\* 'all already indexed'.
C12_Witness ==
    /\ scan_msg.kind = "already_indexed"
    /\ Len(scan_seen) = 2
    /\ ~scan_in
    /\ manifest_file = "mapping"

\* C13: reading the manifest never fails the run: when manifest.json is
\* absent, is not JSON, or is JSON that is not a name -> fingerprint mapping,
\* Scan treats the manifest as empty and selects every file of the store.
C13_BadManifestSelectsEverything ==
    (scanned # NoScan /\ manifest_file # "mapping") => scanned = scan_seen

\* The part of C13 the code keeps: an absent manifest and one that is not
\* JSON are read as empty.
UnreadableManifestSelectsEverything ==
    (scanned # NoScan /\ manifest_file \in {"absent", "unparseable"})
        => scanned = scan_seen

(***************************************************************************)
(* The running system: the store, the callers and the run-level lock       *)
(***************************************************************************)
SysFiles == {File("a", "txt"), File("z", "zip")}
SysZipNames ==
    [z \in ZipFiles |-> << Member("e1", FALSE), Member("d", TRUE),
                           Member("e2", FALSE) >>]
NoMember == Member("", FALSE)

\* A chunk of the collection: node.node_id is a fresh uuid4 for every node a
\* splitter makes, so the id of a chunk names the parse (nonce) it comes from
\* besides the document and the version of it that was read.
Chunk(f, e, stat, nonce) ==
    [source |-> f, filename |-> e, stat |-> stat, nonce |-> nonce]

\* Files shared into the store and not indexed yet.
InitSys ==
    /\ docs \in {[f \in D |-> [st_mtime_ns |-> 1, st_size |-> 1]] : D \in SUBSET SysFiles}
    /\ zipNames = SysZipNames
    /\ manifest = EmptyMap
    /\ collection = {}
    /\ pkl = EmptyMap
    /\ wman = EmptyMap
    /\ manifest_file = "absent"
    /\ IdleDriver /\ IdlePlan /\ IdleScan /\ IdleWorker /\ IdleEmbed /\ IdleSetup /\ IdleMl

\* A file is shared into /data/rag/docs (the store is append-only).
AddFile(f) ==
    /\ calls + changes < MaxEvents
    /\ f \notin DOMAIN docs
    /\ docs' = (f :> [st_mtime_ns |-> 1, st_size |-> 1]) @@ docs
    /\ changes' = changes + 1
    /\ quiet' = FALSE
    /\ last' = OtherOp
    /\ UNCHANGED << cfgVars, zipNames, manifest, collection, pkl, wman,
                    lock, pc, call, run, ret, calls, planVars, scanVars,
                    loadVars, wrkVars, embVars, setupVars, mlVars >>

\* A file of the store is written again: its mtime changes.
TouchFile(f) ==
    /\ calls + changes < MaxEvents
    /\ f \in DOMAIN docs
    /\ docs[f].st_mtime_ns < MaxMtime
    /\ docs' = [docs EXCEPT ![f].st_mtime_ns = @ + 1]
    /\ changes' = changes + 1
    /\ quiet' = FALSE
    /\ last' = OtherOp
    /\ UNCHANGED << cfgVars, zipNames, manifest, collection, pkl, wman,
                    lock, pc, call, run, ret, calls, planVars, scanVars,
                    loadVars, wrkVars, embVars, setupVars, mlVars >>

\* reindex(force, on_status, reload_fn) is called: the caller reaches
\* `with self._lock`.  Requests are served by the first idle thread.
Call(t) ==
    /\ pc[t] = "idle"
    /\ \A u \in Threads : pc[u] = "idle" => ThreadNo(t) <= ThreadNo(u)
    /\ calls + changes < MaxEvents
    /\ \E force \in BOOLEAN : call' = [call EXCEPT ![t] = [force |-> force]]
    /\ pc' = [pc EXCEPT ![t] = "waiting"]
    /\ calls' = calls + 1
    /\ last' = OtherOp
    /\ UNCHANGED << cfgVars, volVars, lock, run, ret, changes, quiet,
                    planVars, scanVars, loadVars, wrkVars, embVars, setupVars, mlVars >>

\* threading.Lock.acquire without the test of the lock.
AcquireUnlocked(t) ==
    /\ pc[t] = "waiting"
    /\ lock' = t
    /\ pc' = [pc EXCEPT ![t] = "scan"]
    /\ run' = [run EXCEPT ![t] = NoRun]
    /\ last' = OtherOp
    /\ UNCHANGED << cfgVars, volVars, call, ret, calls, changes, quiet,
                    planVars, scanVars, loadVars, wrkVars, embVars, setupVars, mlVars >>

\* `with self._lock`: threading.Lock.acquire blocks while the lock is held,
\* by whichever thread.
Acquire(t) ==
    /\ pc[t] = "waiting"
    /\ lock = NoThread
    /\ lock' = t
    /\ pc' = [pc EXCEPT ![t] = "scan"]
    /\ run' = [run EXCEPT ![t] = NoRun]
    /\ last' = OtherOp
    /\ UNCHANGED << cfgVars, volVars, call, ret, calls, changes, quiet,
                    planVars, scanVars, loadVars, wrkVars, embVars, setupVars, mlVars >>

\* Leaving the block with the lock still held.
ReturnHoldingLock(t, r) ==
    /\ lock' = lock
    /\ pc' = [pc EXCEPT ![t] = "idle"]
    /\ ret' = [ret EXCEPT ![t] = r]

\* Leaving the `with self._lock` block, by a return or by an exception:
\* the lock is released.
Return(t, r) ==
    /\ lock' = NoThread
    /\ pc' = [pc EXCEPT ![t] = "idle"]
    /\ ret' = [ret EXCEPT ![t] = r]

\* An exception leaves reindex from inside the block: the status callback,
\* the reload of the volume, the map, the finalize call or the reload hook
\* raises, and nothing in reindex catches it.
RunRaises(t) ==
    /\ pc[t] \in {"scan", "embed", "finalize", "reload"}
    /\ lock = t
    /\ Return(t, Ret("raised", 0, 0, 0))
    /\ last' = OtherOp
    /\ UNCHANGED << cfgVars, volVars, call, run, calls, changes, quiet,
                    planVars, scanVars, loadVars, wrkVars, embVars, setupVars, mlVars >>

(***************************************************************************)
(* agents/rag_agent/indexer_workers.py: the pkl-staging worker and         *)
(* finalize_index, driven by IndexClient (slackbot/services) and by the    *)
(* CLI (scripts/index_rag.py)                                              *)
(***************************************************************************)
\* EmbedWorker.embed: the records of one file (a record per document: an
\* archive gives one per non-directory member, another file gives one).
FileRecords(f, d, names, nonce) ==
    IF EndsWithZip(f)
    THEN {Chunk(f, e, d[f], nonce) : e \in Range(EntriesOf(names[f]))}
    ELSE {Chunk(f, NoMember, d[f], nonce)}

\* EmbedWorker.embed: all_records of a batch of file paths
AllRecords(file_paths, d, names, nonce) ==
    UNION {FileRecords(f, d, names, nonce) : f \in Range(file_paths)}

RECURSIVE SumCard(_)
SumCard(staged) ==
    IF DOMAIN staged = {} THEN 0
    ELSE LET i == CHOOSE j \in DOMAIN staged : TRUE
         IN  Cardinality(staged[i])
               + SumCard([j \in DOMAIN staged \ {i} |-> staged[j]])

\* finalize_index writing manifest entries for the staged files only.
FinalizeStagedOnly(force, coll, staged, d) ==
    LET recs == UNION {staged[i] : i \in DOMAIN staged}
        touched == {r.source : r \in recs}
    IN  [collection |-> (IF force THEN {} ELSE coll) \cup recs,
         manifest |-> [f \in touched \cap DOMAIN d |-> _fingerprint(d[f])],
         pkl |-> EmptyMap,
         total |-> SumCard(staged),
         nfiles |-> Cardinality(touched \cap DOMAIN d)]

\* A finalize that merges and leaves the pending directory in place.
FinalizeKeepsPending(force, coll, staged, d) ==
    [collection |-> (IF force THEN {} ELSE coll)
                       \cup UNION {staged[i] : i \in DOMAIN staged},
     manifest |-> [f \in DOMAIN d |-> _fingerprint(d[f])],
     pkl |-> staged,
     total |-> SumCard(staged),
     nfiles |-> Cardinality(DOMAIN d)]

\* finalize_index(force): delete the collection on force, upsert every
\* staged pkl, write a manifest entry for every file of the store, remove
\* the pending directory.
finalize_index(force, coll, staged, d) ==
    [collection |-> (IF force THEN {} ELSE coll)
                       \cup UNION {staged[i] : i \in DOMAIN staged},
     manifest |-> [f \in DOMAIN d |-> _fingerprint(d[f])],
     pkl |-> EmptyMap,
     total |-> SumCard(staged),
     nfiles |-> Cardinality(DOMAIN d)]

\* f"Indexed {total:,} chunks from {len(manifest)} file(s)."
Summary(fin) == Ret("indexed", fin.total, fin.nfiles, 0)

Pending == [st |-> "pending", count |-> 0, recs |-> {}]

\* Every mapped call running with the default worker_id = 0.
WorkerIdDefault(k) == 0

\* worker_ids = list(range(len(batches))): the id handed to the k-th item
WorkerId(k) == k - 1

\* IndexClient._run up to the dispatch in _fan_out: list the store, return
\* when it is empty, else batch the files and map them to the workers.
ClientScan(t) ==
    /\ pc[t] = "scan"
    /\ LET all_files == Listing(docs) IN
       IF all_files = << >>
       THEN /\ Return(t, Ret("no_documents", 0, 0, 0))
            /\ UNCHANGED run
       ELSE LET batches == FanOutBatches(all_files, N_WORKERS) IN
            /\ run' = [run EXCEPT ![t] =
                  [NoRun EXCEPT !.force = call[t].force,
                                !.files = all_files,
                                !.batches = batches,
                                !.doc_count = Len(all_files),
                                !.items = [k \in 1..Len(batches) |-> Pending],
                                !.nonce = calls,
                                !.quiet = quiet]]
            /\ pc' = [pc EXCEPT ![t] = "embed"]
            /\ UNCHANGED << lock, ret >>
    /\ last' = OtherOp
    /\ UNCHANGED << cfgVars, volVars, call, calls, changes, quiet,
                    planVars, scanVars, loadVars, wrkVars, embVars, setupVars, mlVars >>

\* EmbedWorker.embed(file_paths, worker_id) runs to its end: the records are
\* pickled to worker-{worker_id}.pkl.
ClientWorkerEmbed(t, k) ==
    /\ pc[t] = "embed"
    /\ k \in 1..Len(run[t].items)
    /\ run[t].items[k].st = "pending"
    /\ LET recs == AllRecords(run[t].batches[k], docs, zipNames, run[t].nonce) IN
       /\ pkl' = (WorkerId(k) :> recs) @@ pkl
       /\ run' = [run EXCEPT ![t].items[k] =
             [st |-> "ok", count |-> Cardinality(recs), recs |-> recs]]
    /\ last' = OtherOp
    /\ UNCHANGED << cfgVars, docs, zipNames, manifest, collection, wman,
                    lock, pc, call, ret, calls, changes, quiet,
                    planVars, scanVars, loadVars, wrkVars, embVars, setupVars, mlVars >>

\* EmbedWorker.embed raises (the model, a reader or the volume fails):
\* nothing is written, map(return_exceptions=True) yields the exception.
ClientWorkerRaise(t, k) ==
    /\ pc[t] = "embed"
    /\ k \in 1..Len(run[t].items)
    /\ run[t].items[k].st = "pending"
    /\ run' = [run EXCEPT ![t].items[k].st = "raised"]
    /\ last' = OtherOp
    /\ UNCHANGED << cfgVars, volVars, lock, pc, call, ret, calls, changes,
                    quiet, planVars, scanVars, loadVars, wrkVars, embVars, setupVars, mlVars >>

Failed(items) == Cardinality({k \in 1..Len(items) : items[k].st = "raised"})
RECURSIVE TotalChunks(_)
TotalChunks(items) ==
    IF items = << >> THEN 0
    ELSE (IF Head(items).st = "ok" THEN Head(items).count ELSE 0)
            + TotalChunks(Tail(items))
AllCollected(items) ==
    \A k \in 1..Len(items) : items[k].st \in {"ok", "raised"}

\* A loop over the results that ends before every result has arrived.
ClientCollectEarly(t) ==
    /\ pc[t] = "embed"
    /\ lock = t
    /\ IF Failed(run[t].items) > 0
       THEN Return(t, Ret("failed", TotalChunks(run[t].items), 0,
                           Failed(run[t].items)))
       ELSE /\ pc' = [pc EXCEPT ![t] = "finalize"]
            /\ UNCHANGED << lock, ret >>
    /\ last' = OtherOp
    /\ UNCHANGED << cfgVars, volVars, call, run, calls, changes, quiet,
                    planVars, scanVars, loadVars, wrkVars, embVars, setupVars, mlVars >>

\* IndexClient._fan_out after the map and _run's `if error: return error`.
ClientCollect(t) ==
    /\ pc[t] = "embed"
    /\ lock = t
    /\ AllCollected(run[t].items)
    /\ IF Failed(run[t].items) > 0
       THEN Return(t, Ret("failed", TotalChunks(run[t].items), 0,
                           Failed(run[t].items)))
       ELSE /\ pc' = [pc EXCEPT ![t] = "finalize"]
            /\ UNCHANGED << lock, ret >>
    /\ last' = OtherOp
    /\ UNCHANGED << cfgVars, volVars, call, run, calls, changes, quiet,
                    planVars, scanVars, loadVars, wrkVars, embVars, setupVars, mlVars >>

\* IndexClient._run: finalize_index.remote(force), then the reload hook if
\* one was given, else the return of the summary.
ClientFinalize(t) ==
    /\ pc[t] = "finalize"
    /\ LET fin == finalize_index(call[t].force, collection, pkl, docs) IN
       /\ collection' = fin.collection
       /\ manifest' = fin.manifest
       /\ pkl' = fin.pkl
       /\ run' = [run EXCEPT ![t].finalized = TRUE,
                             ![t].manifest_changed = (fin.manifest # manifest),
                             ![t].result = Summary(fin)]
       /\ \E reload_fn \in BOOLEAN :
             IF reload_fn
             THEN /\ pc' = [pc EXCEPT ![t] = "reload"]
                  /\ UNCHANGED << lock, ret >>
             ELSE Return(t, Summary(fin))
    /\ quiet' = ~call[t].force
    /\ last' = FinalizeOp(call[t].force, t)
    /\ manifest_file' = "mapping"
    /\ UNCHANGED << cfgVars, docs, zipNames, wman, call, calls, changes,
                    planVars, scanVars, wrkVars, embVars, setupVars, mlVars >>

\* reload_fn() returns and reindex returns the summary.
Reload(t) ==
    /\ pc[t] = "reload"
    /\ Return(t, run[t].result)
    /\ last' = OtherOp
    /\ UNCHANGED << cfgVars, volVars, call, run, calls, changes, quiet,
                    planVars, scanVars, loadVars, wrkVars, embVars, setupVars, mlVars >>

\* reload_fn() calls reindex of the same object on the same thread: the
\* thread reaches `with self._lock` again while it holds the lock.
ReloadReenters(t) ==
    /\ pc[t] = "reload"
    /\ calls + changes < MaxEvents
    /\ pc' = [pc EXCEPT ![t] = "waiting"]
    /\ calls' = calls + 1
    /\ last' = OtherOp
    /\ UNCHANGED << cfgVars, volVars, lock, call, run, ret, changes, quiet,
                    planVars, scanVars, loadVars, wrkVars, embVars, setupVars, mlVars >>

\* scripts/index_rag.py::finalize_only(force): finalize_index.remote(force)
\* from the command line, with no reindex run around it.
FinalizeOnly(force) ==
    /\ calls + changes < MaxEvents
    /\ calls' = calls + 1
    /\ LET fin == finalize_index(force, collection, pkl, docs) IN
       /\ collection' = fin.collection
       /\ manifest' = fin.manifest
       /\ pkl' = fin.pkl
    /\ last' = FinalizeOp(force, "cli")
    /\ manifest_file' = "mapping"
    /\ UNCHANGED << cfgVars, docs, zipNames, wman, lock, pc, call, run, ret,
                    changes, quiet, planVars, scanVars, wrkVars, embVars, setupVars, mlVars >>

NextClient ==
    \/ \E f \in SysFiles : AddFile(f) \/ TouchFile(f)
    \/ \E t \in Threads :
          \/ Call(t)
          \/ Acquire(t)
          \/ ClientScan(t)
          \/ \E k \in 1..MaxWorkers : ClientWorkerEmbed(t, k) \/ ClientWorkerRaise(t, k)
          \/ ClientCollect(t)
          \/ ClientFinalize(t)
          \/ Reload(t)
          \/ ReloadReenters(t)
          \/ RunRaises(t)
    \/ \E force \in BOOLEAN : FinalizeOnly(force)

\* IndexClient maps one batch to each of N_WORKERS workers; the per-process
\* concurrency plays no part in its batching.
InitClient ==
    /\ N_WORKERS \in 1..MaxWorkers
    /\ WORKERS_PER_GPU = 1
    /\ InitSys

SpecClient == InitClient /\ [][NextClient]_vars

(***************************************************************************)
(* scripts/index_rag.py::main: the command-line run.  It takes no lock,    *)
(* maps the batches to the workers of indexer_workers.py and calls         *)
(* finalize_index whatever the workers did.                                *)
(***************************************************************************)
\* main up to the map: list the store, return when it is empty, else batch
\* the files over N_WORKERS and dispatch them.
MainStart(t) ==
    /\ pc[t] = "idle"
    /\ \A u \in Threads : pc[u] = "idle" => ThreadNo(t) <= ThreadNo(u)
    /\ calls + changes < MaxEvents
    /\ calls' = calls + 1
    /\ \E force \in BOOLEAN :
          LET all_files == Listing(docs) IN
          /\ call' = [call EXCEPT ![t] = [force |-> force]]
          /\ IF all_files = << >>
             THEN /\ ret' = [ret EXCEPT ![t] = Ret("no_documents", 0, 0, 0)]
                  /\ UNCHANGED << pc, run >>
             ELSE LET batches == FanOutBatches(all_files, N_WORKERS) IN
                  /\ run' = [run EXCEPT ![t] =
                        [NoRun EXCEPT !.force = force,
                                      !.files = all_files,
                                      !.batches = batches,
                                      !.doc_count = Len(all_files),
                                      !.items = [k \in 1..Len(batches) |-> Pending],
                                      !.nonce = calls,
                                      !.quiet = quiet]]
                  /\ pc' = [pc EXCEPT ![t] = "embed"]
                  /\ UNCHANGED ret
    /\ last' = OtherOp
    /\ UNCHANGED << cfgVars, volVars, lock, changes, quiet, planVars, scanVars,
                    loadVars, wrkVars, embVars, setupVars, mlVars >>

\* main after the map: the status line with the counts of chunks and of
\* failed workers is printed, then finalize_index.remote(force) is called,
\* failures or not.
MainFinalize(t) ==
    /\ pc[t] = "embed"
    /\ lock # t
    /\ AllCollected(run[t].items)
    /\ LET fin == finalize_index(call[t].force, collection, pkl, docs) IN
       /\ collection' = fin.collection
       /\ manifest' = fin.manifest
       /\ pkl' = fin.pkl
       /\ run' = [run EXCEPT ![t].finalized = TRUE,
                             ![t].manifest_changed = (fin.manifest # manifest),
                             ![t].result = Summary(fin)]
    /\ ret' = [ret EXCEPT ![t] = Ret("main_status", TotalChunks(run[t].items), 0,
                                     Failed(run[t].items))]
    /\ pc' = [pc EXCEPT ![t] = "idle"]
    /\ quiet' = ~call[t].force
    /\ last' = FinalizeOp(call[t].force, t)
    /\ manifest_file' = "mapping"
    /\ UNCHANGED << cfgVars, docs, zipNames, wman, lock, call, calls, changes,
                    planVars, scanVars, wrkVars, embVars, setupVars, mlVars >>

NextCli ==
    \/ \E f \in SysFiles : AddFile(f) \/ TouchFile(f)
    \/ \E t \in Threads :
          \/ MainStart(t)
          \/ \E k \in 1..MaxWorkers : ClientWorkerEmbed(t, k) \/ ClientWorkerRaise(t, k)
          \/ MainFinalize(t)
    \/ \E force \in BOOLEAN : FinalizeOnly(force)

SpecCli == InitClient /\ [][NextCli]_vars

\* Runs of main and changes of the store, with no separate finalize_only.
NextMain ==
    \/ \E f \in SysFiles : AddFile(f) \/ TouchFile(f)
    \/ \E t \in Threads :
          \/ MainStart(t)
          \/ \E k \in 1..MaxWorkers : ClientWorkerEmbed(t, k) \/ ClientWorkerRaise(t, k)
          \/ MainFinalize(t)

SpecMain == InitClient /\ [][NextMain]_vars

\* C20: in every state reached by runs of reindex, runs with failed work
\* items and runs during which files were added or changed included, a file
\* whose entry in manifest.json equals its current fingerprint has the
\* chunks of that content in the vector store.
C20_ManifestEntryMeansIndexed ==
    \A f \in DOMAIN docs :
        (/\ manifest_file = "mapping"
         /\ f \in DOMAIN manifest
         /\ manifest[f] = _fingerprint(docs[f]))
        => \E r \in collection : r.source = f /\ r.stat = docs[f]

\* What finalize_index does: it lists every file of the store in the
\* manifest with the fingerprint the file has then, whatever was staged.
FinalizeListsEveryFile ==
    last.op = "finalize" =>
        /\ pkl = EmptyMap
        /\ manifest = [f \in DOMAIN docs |-> _fingerprint(docs[f])]

\* The two drivers of indexer_workers.py on one volume: reindex of
\* IndexClient, inside its lock, and main from the command line, which
\* takes none.  Both stage into /data/rag/pending and call finalize_index.
NextBoth ==
    \/ \E f \in SysFiles : AddFile(f) \/ TouchFile(f)
    \/ \E t \in Threads :
          \/ Call(t)
          \/ Acquire(t)
          \/ ClientScan(t)
          \/ \E k \in 1..MaxWorkers : ClientWorkerEmbed(t, k) \/ ClientWorkerRaise(t, k)
          \/ ClientCollect(t)
          \/ ClientFinalize(t)
          \/ Reload(t)
          \/ ReloadReenters(t)
          \/ RunRaises(t)
          \/ MainStart(t)
          \/ MainFinalize(t)

SpecBoth == InitClient /\ [][NextBoth]_vars

\* The pkl files in the pending directory are those the work items of run
\* t wrote.
StagedByRun(t) ==
    \A i \in DOMAIN pkl :
        \E k \in 1..Len(run[t].items) :
            /\ WorkerId(k) = i
            /\ run[t].items[k].st = "ok"
            /\ pkl[i] = run[t].items[k].recs
\* The step in which the finalize of run t merges, no other run being
\* under way.
FinalizeMergesOwnArtifacts ==
    \A t \in Threads :
        (/\ ~run[t].finalized /\ run'[t].finalized
         /\ \A u \in Threads \ {t} : pc[u] = "idle")
        => StagedByRun(t)

\* C29: every staging artifact that Finalize merges was written by a work
\* item of the same run: artifacts left behind by an earlier run that ended
\* without Finalize are never merged into the collection by a later run.
C29_FinalizeMergesOwnArtifacts == [][FinalizeMergesOwnArtifacts]_vars

\* C27: re-parsing identical content with the identical splitter
\* configuration yields an identical chunk-id set, so embedding and
\* upserting the same unchanged input twice leaves the collection with the
\* same id set as doing it once: the collection never holds two chunks of
\* one document in one version under different ids.
C27_ReparseGivesSameIds ==
    \A r1, r2 \in collection :
        (/\ r1.source = r2.source
         /\ r1.filename = r2.filename
         /\ r1.stat = r2.stat)
        => r1 = r2

\* What holds of the code: the records of one parse have distinct
\* documents, so one run adds one chunk for each document it reads.
OneParseOneChunkPerDocument ==
    \A t \in Threads : \A k \in 1..Len(run[t].items) :
        \A r1, r2 \in run[t].items[k].recs :
            (r1.source = r2.source /\ r1.filename = r2.filename) => r1 = r2

\* C11: the result of Finalize tells a run that produced no chunk because
\* every worker failed from a Finalize that produces no chunk because
\* nothing changed: what Finalize returned to a run all of whose workers
\* raised differs from what Finalize returns when it is run on the same
\* store with nothing staged and nothing changed.
C11_FinalizeTellsFailureFromNoChange ==
    \A t \in Threads :
        (/\ last = FinalizeOp(run[t].force, t)
         /\ run[t].finalized
         /\ run[t].items # << >>
         /\ \A k \in 1..Len(run[t].items) : run[t].items[k].st = "raised"
         /\ run[t].result.chunks = 0)
        => run[t].result # Summary(finalize_index(FALSE, collection, pkl, docs))

\* The callers inside the `with self._lock` block (a caller that called
\* reindex again from inside the block is still inside it).
InRun(t) == pc[t] \in {"scan", "plan", "embed", "finalize", "reload"}
            \/ (pc[t] = "waiting" /\ lock = t)

(***************************************************************************)
(* agents/index_pipeline: IndexPipeline with the workers of                *)
(* embed_worker.py, which upsert into the collection themselves and stage  *)
(* a manifest each                                                         *)
(***************************************************************************)
\* EmbedWorker._embed_files / _embed_zip_entries: the tuples accumulated in
\* self._pending for one work item
ItemRecords(work, d, nonce) ==
    IF work.type = "files"
    THEN {Chunk(f, NoMember, d[f], nonce) : f \in Range(work.paths)}
    ELSE {Chunk(work.zip_path, e, d[work.zip_path], nonce) :
             e \in Range(work.entries)}

\* EmbedWorker._write_manifest: the manifest a worker stages for its item
WorkerManifest(work, d) ==
    LET paths == IF work.type = "files" THEN Range(work.paths)
                 ELSE IF work.type = "zip_entries" THEN {work.zip_path}
                 ELSE {}
    IN  [f \in paths |-> _fingerprint(d[f])]

\* The finalize_index(force, doc_count) IndexPipeline calls: on force the
\* collection is deleted and recreated, every staged worker artifact is
\* merged, the manifest gets one entry per file of the store and the staged
\* artifacts are removed.
pipeline_finalize(force, doc_count, coll, staged, d) ==
    [collection |-> (IF force THEN {} ELSE coll)
                       \cup UNION {staged[i] : i \in DOMAIN staged},
     manifest |-> [f \in DOMAIN d |-> _fingerprint(d[f])],
     pkl |-> EmptyMap,
     wman |-> EmptyMap,
     total |-> doc_count,
     nfiles |-> Cardinality(DOMAIN d)]

\* A reindex without `if not files: return self._empty_result()`: an empty
\* worklist goes on to the embed phase like any other.
PipeScanNoEmptyTest(t) ==
    /\ pc[t] = "scan"
    /\ LET loaded == _load_manifest(manifest_file, manifest)
           fs == _scan(call[t].force, docs, loaded.entries)
           b == _build_batches(fs, zipNames, N_WORKERS, WORKERS_PER_GPU)
       IN  /\ run' = [run EXCEPT ![t] =
                      [NoRun EXCEPT !.force = call[t].force,
                                    !.files = fs,
                                    !.batches = b.batches,
                                    !.doc_count = b.doc_count,
                                    !.items = [k \in 1..Len(b.batches) |-> Pending],
                                    !.nonce = calls,
                                    !.quiet = quiet]]
           /\ pc' = [pc EXCEPT ![t] = "embed"]
           /\ UNCHANGED << lock, ret >>
    /\ last' = OtherOp
    /\ UNCHANGED << cfgVars, volVars, call, calls, changes, quiet,
                    planVars, scanVars, loadVars, wrkVars, embVars, setupVars, mlVars >>

\* IndexPipeline.reindex from the scan to the dispatch of the work items in
\* _embed: return _empty_result() when nothing is to index; _build_batches
\* may raise, which ends reindex with that exception.
PipeScan(t) ==
    /\ pc[t] = "scan"
    /\ LET loaded == _load_manifest(manifest_file, manifest)
           fs == _scan(call[t].force, docs, loaded.entries)
           b == _build_batches(fs, zipNames, N_WORKERS, WORKERS_PER_GPU)
       IN  IF ScanRaises(call[t].force, docs, loaded)
           THEN /\ Return(t, Ret("raised", 0, 0, 0))
                /\ run' = [run EXCEPT ![t].force = call[t].force,
                                      ![t].quiet = quiet]
           ELSE IF fs = << >>
           THEN /\ Return(t, _empty_result(docs, loaded))
                /\ run' = [run EXCEPT ![t].force = call[t].force,
                                      ![t].quiet = quiet]
           ELSE IF b.raised
           THEN /\ Return(t, Ret("raised", 0, 0, 0))
                /\ run' = [run EXCEPT ![t].force = call[t].force,
                                      ![t].files = fs,
                                      ![t].quiet = quiet]
           ELSE /\ run' = [run EXCEPT ![t] =
                      [NoRun EXCEPT !.force = call[t].force,
                                    !.files = fs,
                                    !.batches = b.batches,
                                    !.doc_count = b.doc_count,
                                    !.items = [k \in 1..Len(b.batches) |-> Pending],
                                    !.nonce = calls,
                                    !.quiet = quiet]]
                /\ pc' = [pc EXCEPT ![t] = "embed"]
                /\ UNCHANGED << lock, ret >>
    /\ last' = OtherOp
    /\ UNCHANGED << cfgVars, volVars, call, calls, changes, quiet,
                    planVars, scanVars, loadVars, wrkVars, embVars, setupVars, mlVars >>

\* EmbedWorker.embed up to the flush: every document of the item is chunked
\* and embedded and its tuples are accumulated in memory.
PipeWorkerProcess(t, k) ==
    /\ pc[t] = "embed"
    /\ k \in 1..Len(run[t].items)
    /\ run[t].items[k].st = "pending"
    /\ LET recs == ItemRecords(run[t].batches[k], docs, run[t].nonce) IN
       run' = [run EXCEPT ![t].items[k] =
           [st |-> "accumulated", count |-> Cardinality(recs), recs |-> recs]]
    /\ last' = OtherOp
    /\ UNCHANGED << cfgVars, volVars, lock, pc, call, ret, calls, changes,
                    quiet, planVars, scanVars, loadVars, wrkVars, embVars, setupVars, mlVars >>

\* EmbedWorker._flush_to_chroma: the accumulated tuples are upserted.
PipeWorkerFlush(t, k) ==
    /\ pc[t] = "embed"
    /\ k \in 1..Len(run[t].items)
    /\ run[t].items[k].st = "accumulated"
    /\ collection' = collection \cup run[t].items[k].recs
    /\ run' = [run EXCEPT ![t].items[k].st = "flushed"]
    /\ last' = OtherOp
    /\ UNCHANGED << cfgVars, docs, zipNames, manifest, pkl, wman, lock, pc,
                    call, ret, calls, changes, quiet, planVars, scanVars,
                    loadVars, wrkVars, embVars, setupVars, mlVars >>

\* EmbedWorker._write_manifest, and the return of (worker_id, total).
PipeWorkerWriteManifest(t, k) ==
    /\ pc[t] = "embed"
    /\ k \in 1..Len(run[t].items)
    /\ run[t].items[k].st = "flushed"
    /\ wman' = (WorkerId(k) :> WorkerManifest(run[t].batches[k], docs)) @@ wman
    /\ run' = [run EXCEPT ![t].items[k].st = "ok"]
    /\ last' = OtherOp
    /\ UNCHANGED << cfgVars, docs, zipNames, manifest, collection, pkl, lock,
                    pc, call, ret, calls, changes, quiet, planVars, scanVars,
                    loadVars, wrkVars, embVars, setupVars, mlVars >>

\* EmbedWorker.embed raises while it processes its documents (a reader or
\* the embedding request fails): nothing of the item is written.
PipeWorkerRaise(t, k) ==
    /\ pc[t] = "embed"
    /\ k \in 1..Len(run[t].items)
    /\ run[t].items[k].st = "pending"
    /\ run' = [run EXCEPT ![t].items[k].st = "raised"]
    /\ last' = OtherOp
    /\ UNCHANGED << cfgVars, volVars, lock, pc, call, ret, calls, changes,
                    quiet, planVars, scanVars, loadVars, wrkVars, embVars, setupVars, mlVars >>

\* IndexPipeline._embed after the map: failures are printed, the document
\* count is returned whatever failed.
PipeCollect(t) ==
    /\ pc[t] = "embed"
    /\ AllCollected(run[t].items)
    /\ pc' = [pc EXCEPT ![t] = "finalize"]
    /\ last' = OtherOp
    /\ UNCHANGED << cfgVars, volVars, lock, call, run, ret, calls, changes,
                    quiet, planVars, scanVars, loadVars, wrkVars, embVars, setupVars, mlVars >>

\* IndexPipeline._finalize, then the reload hook if one was given, else the
\* return of the summary.
PipeFinalize(t) ==
    /\ pc[t] = "finalize"
    /\ LET fin == pipeline_finalize(call[t].force, run[t].doc_count,
                                    collection, pkl, docs) IN
       /\ collection' = fin.collection
       /\ manifest' = fin.manifest
       /\ pkl' = fin.pkl
       /\ wman' = fin.wman
       /\ run' = [run EXCEPT ![t].finalized = TRUE,
                             ![t].manifest_changed = (fin.manifest # manifest),
                             ![t].result = Summary(fin)]
       /\ \E reload_fn \in BOOLEAN :
             IF reload_fn
             THEN /\ pc' = [pc EXCEPT ![t] = "reload"]
                  /\ UNCHANGED << lock, ret >>
             ELSE Return(t, Summary(fin))
    /\ quiet' = ~call[t].force
    /\ last' = FinalizeOp(call[t].force, t)
    /\ manifest_file' = "mapping"
    /\ UNCHANGED << cfgVars, docs, zipNames, call, calls, changes,
                    planVars, scanVars, wrkVars, embVars, setupVars, mlVars >>

MaxItems == 3 * MaxWorkers * MaxPerGpu

NextPipeline ==
    \/ \E f \in SysFiles : AddFile(f) \/ TouchFile(f)
    \/ \E t \in Threads :
          \/ Call(t)
          \/ Acquire(t)
          \/ PipeScan(t)
          \/ \E k \in 1..MaxItems :
                \/ PipeWorkerProcess(t, k)
                \/ PipeWorkerFlush(t, k)
                \/ PipeWorkerWriteManifest(t, k)
                \/ PipeWorkerRaise(t, k)
          \/ PipeCollect(t)
          \/ PipeFinalize(t)
          \/ Reload(t)
          \/ ReloadReenters(t)

\* The pool of the running system is N_WORKERS x 1; SpecPlan covers the
\* planner for every pool.
InitPipeline ==
    /\ N_WORKERS \in 1..MaxWorkers
    /\ WORKERS_PER_GPU = 1
    /\ InitSys

SpecPipeline == InitPipeline /\ [][NextPipeline]_vars

(***************************************************************************)
(* One worker process of embed_worker.py: EmbedWorker is one object per    *)
(* container and modal.concurrent lets several embed calls run on it at    *)
(* once, each on its own thread.  The calls share self._pending,           *)
(* self._collection and self._chroma_lock.                                 *)
(***************************************************************************)
\* What extraction gives for a document: text, blank text, or a failure.
Kinds == {"text", "blank", "unreadable"}

\* The work items the process is given: a 'files' item and a slice of an
\* archive, two documents each.
WorkFiles == << File("a", "txt"), File("b", "txt") >>
WorkZip == File("z", "zip")
WorkEntries == << Member("e1", FALSE), Member("e2", FALSE) >>
\* A malformed descriptor: a type embed does not know, no paths, no archive.
UnknownItem ==
    [type |-> "unknown", paths |-> << >>, zip_path |-> NoPath, entries |-> << >>]
KnownTypes == {"files", "zip_entries"}
WorkItems == {FilesItem(WorkFiles), ZipItem(WorkZip, WorkEntries), UnknownItem}

\* The documents of a work item, in the order embed goes through them.
Doc(f, e) == [source |-> f, filename |-> e]
WorkDocs(work) ==
    IF work.type = "files"
    THEN [i \in 1..Len(work.paths) |-> Doc(work.paths[i], NoMember)]
    ELSE [i \in 1..Len(work.entries) |-> Doc(work.zip_path, work.entries[i])]
AllWorkDocs == UNION {Range(WorkDocs(w)) : w \in WorkItems}
WorkStat == [st_mtime_ns |-> 1, st_size |-> 1]

\* The tuple _chunk_and_embed appends for a document, made by call c.
TupleOf(d, c) == Chunk(d.source, d.filename, WorkStat, c)

\* What one document of a work item comes to.  An archive entry that cannot
\* be read or decoded gives None (_read_zip_entry catches the exception) and
\* an entry without text is passed over.  A regular file goes through
\* SimpleDirectoryReader(...).load_data() with no handler around it: a
\* failure is either swallowed by the reader or leaves embed as an
\* exception, and blank text is handed to the splitter, which gives a node
\* for it or none.
Outcomes(work, kind) ==
    IF kind = "text" THEN {"chunk"}
    ELSE IF work.type = "zip_entries" THEN {"skip"}
    ELSE IF kind = "unreadable" THEN {"skip", "raise"}
    ELSE {"skip", "chunk"}

InitWorker ==
    /\ IdleEmbed /\ IdleSetup /\ IdleMl
    /\ N_WORKERS = 1
    /\ WORKERS_PER_GPU = Cardinality(Calls)
    /\ docs = [f \in Range(WorkFiles) \cup {WorkZip} |-> WorkStat]
    /\ zipNames = [z \in ZipFiles |-> IF z = WorkZip THEN WorkEntries ELSE << >>]
    /\ manifest = EmptyMap /\ manifest_file = "absent"
    /\ collection = {} /\ pkl = EmptyMap /\ wman = EmptyMap
    /\ content \in [AllWorkDocs -> Kinds]
    /\ wpc = [c \in Calls |-> "idle"]
    /\ wwork = [c \in Calls |-> NoWork]
    /\ wdone = [c \in Calls |-> 0]
    /\ wtotal = [c \in Calls |-> 0]
    /\ wmine = [c \in Calls |-> {}]
    /\ wflushed = [c \in Calls |-> {}]
    /\ _pending = {}
    /\ _chroma_lock = 0
    /\ IdleDriver /\ IdlePlan /\ IdleScan

\* embed(work, worker_id) begins: self._pending = []
WorkerBegin(c, w) ==
    /\ wpc[c] = "idle"
    /\ \A o \in Calls : wwork[o] # w
    /\ wwork' = [wwork EXCEPT ![c] = w]
    /\ _pending' = {}
    /\ wpc' = [wpc EXCEPT ![c] = "processing"]
    /\ UNCHANGED << cfgVars, volVars, drvVars, planVars, scanVars, loadVars, embVars, setupVars, mlVars,
                    content, wdone, wtotal, wmine, wflushed, _chroma_lock >>

\* _embed_files / _embed_zip_entries: the next document of the item is
\* extracted, chunked and embedded, and its tuple is appended to
\* self._pending.
WorkerProcessDoc(c) ==
    /\ wpc[c] = "processing"
    /\ wdone[c] < Len(WorkDocs(wwork[c]))
    /\ LET d == WorkDocs(wwork[c])[wdone[c] + 1] IN
       \E o \in Outcomes(wwork[c], content[d]) :
          /\ wpc' = [wpc EXCEPT ![c] = IF o = "raise" THEN "raised" ELSE @]
          /\ wdone' = [wdone EXCEPT ![c] = IF o = "raise" THEN @ ELSE @ + 1]
          /\ IF o = "chunk"
             THEN /\ _pending' = _pending \cup {TupleOf(d, c)}
                  /\ wmine' = [wmine EXCEPT ![c] = @ \cup {TupleOf(d, c)}]
                  /\ wtotal' = [wtotal EXCEPT ![c] = @ + 1]
             ELSE UNCHANGED << _pending, wmine, wtotal >>
    /\ UNCHANGED << cfgVars, volVars, drvVars, planVars, scanVars, loadVars, embVars, setupVars, mlVars,
                    content, wwork, wflushed, _chroma_lock >>

\* A dispatch on work["type"] that lets an unknown type through to the
\* flush and the manifest.
WorkerUnknownTypeIgnored(c) ==
    /\ wpc[c] = "processing"
    /\ wwork[c].type \notin KnownTypes
    /\ wpc' = [wpc EXCEPT ![c] = "flush_return"]
    /\ UNCHANGED << cfgVars, volVars, drvVars, planVars, scanVars, loadVars, embVars, setupVars, mlVars,
                    content, wwork, wdone, wtotal, wmine, wflushed, _pending,
                    _chroma_lock >>

\* The dispatch on work["type"]: neither "files" nor "zip_entries" is
\* `raise ValueError(f"Unknown work type: {work_type}")`.
WorkerUnknownType(c) ==
    /\ wpc[c] = "processing"
    /\ wwork[c].type \notin KnownTypes
    /\ wpc' = [wpc EXCEPT ![c] = "raised"]
    /\ UNCHANGED << cfgVars, volVars, drvVars, planVars, scanVars, loadVars, embVars, setupVars, mlVars,
                    content, wwork, wdone, wtotal, wmine, wflushed, _pending,
                    _chroma_lock >>

\* A flush that begins whether or not the item's documents are done.
WorkerFlushCheckEarly(c) ==
    /\ wpc[c] = "processing"
    /\ wwork[c].type \in KnownTypes
    /\ wpc' = [wpc EXCEPT ![c] = IF _pending = {} THEN "flush_return"
                                  ELSE "flush_wait"]
    /\ UNCHANGED << cfgVars, volVars, drvVars, planVars, scanVars, loadVars, embVars, setupVars, mlVars,
                    content, wwork, wdone, wtotal, wmine, wflushed, _pending,
                    _chroma_lock >>

\* The loop over the documents has ended and _flush_to_chroma begins:
\* `if not self._pending: return`
WorkerFlushCheck(c) ==
    /\ wpc[c] = "processing"
    /\ wwork[c].type \in KnownTypes
    /\ wdone[c] = Len(WorkDocs(wwork[c]))
    /\ wpc' = [wpc EXCEPT ![c] = IF _pending = {} THEN "flush_return"
                                  ELSE "flush_wait"]
    /\ UNCHANGED << cfgVars, volVars, drvVars, planVars, scanVars, loadVars, embVars, setupVars, mlVars,
                    content, wwork, wdone, wtotal, wmine, wflushed, _pending,
                    _chroma_lock >>

\* _flush_to_chroma returns without a write.
WorkerFlushReturn(c) ==
    /\ wpc[c] = "flush_return"
    /\ wpc' = [wpc EXCEPT ![c] = "manifest"]
    /\ UNCHANGED << cfgVars, volVars, drvVars, planVars, scanVars, loadVars, embVars, setupVars, mlVars,
                    content, wwork, wdone, wtotal, wmine, wflushed, _pending,
                    _chroma_lock >>

\* Entering the upsert with no test of the lock.
WorkerFlushEnter(c) ==
    /\ wpc[c] = "flush_wait"
    /\ _chroma_lock' = c
    /\ wpc' = [wpc EXCEPT ![c] = "flush_locked"]
    /\ UNCHANGED << cfgVars, volVars, drvVars, planVars, scanVars, loadVars, embVars, setupVars, mlVars,
                    content, wwork, wdone, wtotal, wmine, wflushed, _pending >>

\* `with self._chroma_lock`
WorkerFlushAcquire(c) ==
    /\ wpc[c] = "flush_wait"
    /\ _chroma_lock = 0
    /\ _chroma_lock' = c
    /\ wpc' = [wpc EXCEPT ![c] = "flush_locked"]
    /\ UNCHANGED << cfgVars, volVars, drvVars, planVars, scanVars, loadVars, embVars, setupVars, mlVars,
                    content, wwork, wdone, wtotal, wmine, wflushed, _pending >>

\* The upsert loop: what self._pending holds now is upserted (one batch,
\* the items here being far below UPSERT_BATCH).
WorkerFlushUpsert(c) ==
    /\ wpc[c] = "flush_locked"
    /\ collection' = collection \cup _pending
    /\ wflushed' = [wflushed EXCEPT ![c] = @ \cup _pending]
    /\ wpc' = [wpc EXCEPT ![c] = "flush_unlock"]
    /\ UNCHANGED << cfgVars, docs, zipNames, manifest, pkl, wman, drvVars,
                    planVars, scanVars, loadVars, embVars, setupVars, mlVars, content, wwork, wdone,
                    wtotal, wmine, _pending, _chroma_lock >>

\* The `with` block is left.
WorkerFlushRelease(c) ==
    /\ wpc[c] = "flush_unlock"
    /\ _chroma_lock' = 0
    /\ wpc' = [wpc EXCEPT ![c] = "flush_reset"]
    /\ UNCHANGED << cfgVars, volVars, drvVars, planVars, scanVars, loadVars, embVars, setupVars, mlVars,
                    content, wwork, wdone, wtotal, wmine, wflushed, _pending >>

\* self._pending = [] at the end of _flush_to_chroma
WorkerFlushReset(c) ==
    /\ wpc[c] = "flush_reset"
    /\ _pending' = {}
    /\ wpc' = [wpc EXCEPT ![c] = "manifest"]
    /\ UNCHANGED << cfgVars, volVars, drvVars, planVars, scanVars, loadVars, embVars, setupVars, mlVars,
                    content, wwork, wdone, wtotal, wmine, wflushed,
                    _chroma_lock >>

\* _write_manifest(worker_id, work), and embed returns (worker_id, total).
WorkerWriteManifest(c) ==
    /\ wpc[c] = "manifest"
    /\ wman' = ((c - 1) :> WorkerManifest(wwork[c], docs)) @@ wman
    /\ wpc' = [wpc EXCEPT ![c] = "done"]
    /\ UNCHANGED << cfgVars, docs, zipNames, manifest, collection, pkl,
                    drvVars, planVars, scanVars, loadVars, embVars, setupVars, mlVars, content, wwork,
                    wdone, wtotal, wmine, wflushed, _pending, _chroma_lock >>

NextWorker ==
    \E c \in Calls :
        \/ \E w \in WorkItems : WorkerBegin(c, w)
        \/ WorkerUnknownType(c)
        \/ WorkerProcessDoc(c)
        \/ WorkerFlushCheck(c)
        \/ WorkerFlushReturn(c)
        \/ WorkerFlushAcquire(c)
        \/ WorkerFlushUpsert(c)
        \/ WorkerFlushRelease(c)
        \/ WorkerFlushReset(c)
        \/ WorkerWriteManifest(c)

SpecWorker == InitWorker /\ [][NextWorker]_vars

(***************************************************************************)
(* _embed_texts on its own: the loop that posts the texts of a document    *)
(* to the TEI server, one batch per request.                               *)
(***************************************************************************)
TEI_MAX_BATCH == 512
TEI_BATCH_SIZE == 256
MaxRequests == 3

\* The vector the server gives for a text.
Vec(t) == [embedding_of |-> t]
\* POST /embed of the server started with --max-client-batch-size
\* TEI_MAX_BATCH: a batch above the maximum is refused (raise_for_status
\* raises), any other is answered with one vector per input, in order.
TeiAccepts(batch) == Len(batch) <= TEI_MAX_BATCH
TeiEmbed(batch) == [k \in 1..Len(batch) |-> Vec(batch[k])]

\* texts[i : i + TEI_BATCH_SIZE + 1]: one text too many in every slice.
SliceOneMore(ts, i) ==
    SubSeq(ts, i + 1, IF i + TEI_BATCH_SIZE + 1 < Len(ts)
                         THEN i + TEI_BATCH_SIZE + 1 ELSE Len(ts))
\* texts[i : i + TEI_BATCH_SIZE], i counted from 0.
Slice(ts, i) ==
    SubSeq(ts, i + 1, IF i + TEI_BATCH_SIZE < Len(ts)
                         THEN i + TEI_BATCH_SIZE ELSE Len(ts))

\* The lists given to _embed_texts: every length that takes at most
\* MaxRequests requests, the texts all different or repeating with the
\* period of a batch.
TextLists ==
    {[k \in 1..n |-> IF rep THEN k % TEI_BATCH_SIZE ELSE k] :
        n \in 0..(MaxRequests * TEI_BATCH_SIZE), rep \in BOOLEAN}

InitEmbed ==
    /\ N_WORKERS = 1 /\ WORKERS_PER_GPU = 1
    /\ IdleVolume /\ IdleDriver /\ IdlePlan /\ IdleScan /\ IdleWorker
    /\ IdleSetup /\ IdleMl
    /\ manifest_file = "absent"
    /\ texts \in TextLists
    /\ emb_pc = "loop" /\ emb_i = 0
    /\ all_embeddings = << >> /\ requests = << >>

\* One pass of the for loop: the slice is posted and the answer appended.
EmbedRequest ==
    /\ emb_pc = "loop"
    /\ emb_i < Len(texts)
    /\ LET batch == Slice(texts, emb_i) IN
       /\ requests' = Append(requests, Len(batch))
       /\ IF TeiAccepts(batch)
          THEN /\ all_embeddings' = all_embeddings \o TeiEmbed(batch)
               /\ emb_i' = emb_i + TEI_BATCH_SIZE
               /\ UNCHANGED emb_pc
          ELSE /\ emb_pc' = "raised"
               /\ UNCHANGED << all_embeddings, emb_i >>
    /\ UNCHANGED << cfgVars, volVars, drvVars, planVars, scanVars, loadVars,
                    wrkVars, setupVars, mlVars, texts >>

\* The request fails (the server answers with an error status, the
\* connection breaks): post or raise_for_status raises out of _embed_texts.
EmbedRequestFails ==
    /\ emb_pc = "loop"
    /\ emb_i < Len(texts)
    /\ requests' = Append(requests, Len(Slice(texts, emb_i)))
    /\ emb_pc' = "raised"
    /\ UNCHANGED << cfgVars, volVars, drvVars, planVars, scanVars, loadVars,
                    wrkVars, setupVars, mlVars, texts, all_embeddings, emb_i >>

\* range(0, len(texts), TEI_BATCH_SIZE) is exhausted: return all_embeddings.
EmbedReturn ==
    /\ emb_pc = "loop"
    /\ emb_i >= Len(texts)
    /\ emb_pc' = "returned"
    /\ UNCHANGED << cfgVars, volVars, drvVars, planVars, scanVars, loadVars,
                    wrkVars, setupVars, mlVars, texts, all_embeddings, emb_i, requests >>

NextEmbed == EmbedRequest \/ EmbedRequestFails \/ EmbedReturn
SpecEmbed == InitEmbed /\ [][NextEmbed]_vars

\* Every batch posted is within the maximum of the server.
RequestsWithinMaximum ==
    \A k \in 1..Len(requests) : requests[k] >= 1 /\ requests[k] <= TEI_MAX_BATCH
\* What _embed_texts returns is the vector of every text, in input order.
OneVectorPerText ==
    emb_pc = "returned" =>
        /\ Len(all_embeddings) = Len(texts)
        /\ \A k \in 1..Len(texts) : all_embeddings[k] = Vec(texts[k])

\* C30: every request a worker sends to the embedding provider carries at
\* most the provider's maximum batch size of texts, and embedding a list of
\* texts returns exactly one vector per text, in input order, for any
\* number of texts.
C30_BatchesWithinMaximumOneVectorPerText ==
    RequestsWithinMaximum /\ OneVectorPerText
\* A list that does not fit one request has been embedded in several.
C30_Witness ==
    /\ emb_pc = "returned"
    /\ Len(texts) > TEI_BATCH_SIZE
    /\ Len(requests) >= 2
    /\ Len(all_embeddings) = Len(texts)

(***************************************************************************)
(* The life of one worker process: _setup (modal.enter) starts the TEI     *)
(* server and polls its port, then the process takes an embed call whose   *)
(* texts go through _embed_texts.  Time is counted in ticks of half a      *)
(* second, the length of the sleep between two connection attempts.        *)
(***************************************************************************)
TicksPerSecond == 2
\* _wait_for_tei(self, timeout: float = 120.0), in seconds.
timeout == 120
\* How many ticks longer than asked time.sleep may take.
MaxOversleep == 1
\* create_connection(..., timeout=1.0) and time.sleep(0.5), in ticks.
ConnectTicks == TicksPerSecond
SleepTicks == TicksPerSecond \div 2

Polling == {"test", "connect", "sleep"}
\* The texts of the work item the process is given.
ItemTexts ==
    {[k \in 1..n |-> k] :
        n \in {0, 1, TEI_BATCH_SIZE + 1, MaxRequests * TEI_BATCH_SIZE}}

InitSetup ==
    /\ N_WORKERS = 1 /\ WORKERS_PER_GPU = 1
    /\ IdleVolume /\ IdleDriver /\ IdlePlan /\ IdleScan /\ IdleWorker
    /\ IdleEmbed /\ IdleMl
    /\ manifest_file = "absent"
    /\ setup_pc = "enter" /\ elapsed = 0 /\ connected = FALSE
    /\ tei_up = FALSE
    /\ item_pc = "none"

\* The server begins to listen, or stops (the subprocess has loaded the
\* model, or has died): not a step of the worker.
TeiComesUp ==
    /\ ~tei_up
    /\ tei_up' = TRUE
    /\ UNCHANGED << cfgVars, volVars, drvVars, planVars, scanVars, loadVars,
                    wrkVars, mlVars, embVars, setup_pc, elapsed, connected, item_pc >>
TeiGoesDown ==
    /\ tei_up
    /\ tei_up' = FALSE
    /\ UNCHANGED << cfgVars, volVars, drvVars, planVars, scanVars, loadVars,
                    wrkVars, mlVars, embVars, setup_pc, elapsed, connected, item_pc >>

\* _setup up to the first line of _wait_for_tei: the lock, Popen,
\* start = time.monotonic().
SetupEnter ==
    /\ setup_pc = "enter"
    /\ setup_pc' = "test"
    /\ elapsed' = 0
    /\ UNCHANGED << cfgVars, volVars, drvVars, planVars, scanVars, loadVars,
                    wrkVars, mlVars, embVars, tei_up, connected, item_pc >>

\* while time.monotonic() - start < timeout, and the raise after the loop.
ProbeTest ==
    /\ setup_pc = "test"
    /\ setup_pc' = IF elapsed < TicksPerSecond * timeout
                      THEN "connect" ELSE "timed_out"
    /\ UNCHANGED << cfgVars, volVars, drvVars, planVars, scanVars, loadVars,
                    wrkVars, mlVars, embVars, elapsed, tei_up, connected, item_pc >>

\* create_connection succeeds: print and return out of _wait_for_tei.
ProbeConnectOk ==
    /\ setup_pc = "connect"
    /\ tei_up
    /\ connected' = TRUE
    /\ setup_pc' = "init"
    /\ elapsed' = 0
    /\ UNCHANGED << cfgVars, volVars, drvVars, planVars, scanVars, loadVars,
                    wrkVars, mlVars, embVars, tei_up, item_pc >>

\* create_connection raises OSError, at once or after its timeout.
ProbeConnectRefused ==
    /\ setup_pc = "connect"
    /\ \E d \in 0..ConnectTicks : elapsed' = elapsed + d
    /\ setup_pc' = "sleep"
    /\ UNCHANGED << cfgVars, volVars, drvVars, planVars, scanVars, loadVars,
                    wrkVars, mlVars, embVars, tei_up, connected, item_pc >>

\* A loop that takes start again on every pass.
ProbeSleepRestart ==
    /\ setup_pc = "sleep"
    /\ elapsed' = 0
    /\ setup_pc' = "test"
    /\ UNCHANGED << cfgVars, volVars, drvVars, planVars, scanVars, loadVars,
                    wrkVars, mlVars, embVars, tei_up, connected, item_pc >>

\* except OSError: time.sleep(0.5)
ProbeSleep ==
    /\ setup_pc = "sleep"
    /\ \E d \in SleepTicks..(SleepTicks + MaxOversleep) : elapsed' = elapsed + d
    /\ setup_pc' = "test"
    /\ UNCHANGED << cfgVars, volVars, drvVars, planVars, scanVars, loadVars,
                    wrkVars, mlVars, embVars, tei_up, connected, item_pc >>

\* The rest of _setup: _init_splitter, _init_chroma, httpx.Client.
SetupInit ==
    /\ setup_pc = "init"
    /\ setup_pc' = "ready"
    /\ UNCHANGED << cfgVars, volVars, drvVars, planVars, scanVars, loadVars,
                    wrkVars, mlVars, embVars, elapsed, tei_up, connected, item_pc >>
\* One of them raises.
SetupInitRaises ==
    /\ setup_pc = "init"
    /\ setup_pc' = "failed"
    /\ UNCHANGED << cfgVars, volVars, drvVars, planVars, scanVars, loadVars,
                    wrkVars, mlVars, embVars, elapsed, tei_up, connected, item_pc >>

\* The process is given an embed call: a method runs only in a container
\* whose modal.enter hook has returned.  _chunk_and_embed hands the texts
\* of the item to _embed_texts.
EmbedStart ==
    /\ setup_pc = "ready"
    /\ item_pc = "none"
    /\ item_pc' = "running"
    /\ texts' \in ItemTexts
    /\ emb_pc' = "loop" /\ emb_i' = 0
    /\ all_embeddings' = << >> /\ requests' = << >>
    /\ UNCHANGED << cfgVars, volVars, drvVars, planVars, scanVars, loadVars,
                    wrkVars, mlVars, setup_pc, elapsed, tei_up, connected >>

\* The exception of _embed_texts leaves _chunk_and_embed, _embed_files or
\* _embed_zip_entries and embed: none of them has a handler.
ItemRaises ==
    /\ item_pc = "running"
    /\ emb_pc = "raised"
    /\ item_pc' = "raised"
    /\ UNCHANGED << cfgVars, volVars, drvVars, planVars, scanVars, loadVars,
                    wrkVars, mlVars, embVars, setup_pc, elapsed, tei_up, connected >>
\* _embed_texts has returned and embed goes on to its return.
ItemReturns ==
    /\ item_pc = "running"
    /\ emb_pc = "returned"
    /\ item_pc' = "returned"
    /\ UNCHANGED << cfgVars, volVars, drvVars, planVars, scanVars, loadVars,
                    wrkVars, mlVars, embVars, setup_pc, elapsed, tei_up, connected >>

\* The steps of the worker process itself.
ProcessStep ==
    \/ SetupEnter
    \/ ProbeTest
    \/ ProbeConnectOk
    \/ ProbeConnectRefused
    \/ ProbeSleep
    \/ SetupInit
    \/ SetupInitRaises
    \/ (tei_up /\ EmbedRequest)
    \/ EmbedRequestFails
    \/ EmbedReturn
    \/ ItemRaises
    \/ ItemReturns

NextSetup == ProcessStep \/ TeiComesUp \/ TeiGoesDown \/ EmbedStart

\* The process is not suspended for ever: a step it can take is taken.
SpecSetup == InitSetup /\ [][NextSetup]_vars /\ WF_vars(ProcessStep)

\* The probe returns on its first successful connection and on nothing
\* else, and raises only when the timeout has elapsed without one.
ProbeOutcome ==
    /\ connected => setup_pc \in {"init", "ready", "failed"}
    /\ setup_pc \in {"init", "ready", "failed"} => connected
    /\ setup_pc = "timed_out" =>
          ~connected /\ elapsed >= TicksPerSecond * timeout
\* A process whose setup did not complete has no call.
NoCallWithoutSetup ==
    setup_pc # "ready" => item_pc = "none" /\ emb_pc = "idle"
\* Every slice is posted once: a failed post is the last one.
PostedOnce ==
    /\ emb_pc \in {"loop", "returned"} => Len(requests) * TEI_BATCH_SIZE = emb_i
    /\ emb_pc = "raised" =>
          Len(requests) * TEI_BATCH_SIZE = emb_i + TEI_BATCH_SIZE
    /\ emb_pc = "raised" => item_pc \in {"running", "raised"}
    /\ item_pc = "returned" => emb_pc = "returned"
\* A probe that raised stays raised, and a failed request is followed by
\* no other request.
FailureIsFinal ==
    /\ setup_pc = "timed_out" => setup_pc' = "timed_out"
    /\ emb_pc = "raised" => emb_pc' = "raised" /\ requests' = requests

\* C31: the startup probe always terminates: it returns as soon as one
\* connection attempt succeeds and otherwise raises once the bounded
\* timeout has elapsed; a worker process whose probe raised never completes
\* setup and never processes a work item, and a failed embed request is not
\* retried but fails its work item.
C31_ProbeTerminatesFailuresFatal ==
    /\ [](ProbeOutcome /\ NoCallWithoutSetup /\ PostedOnce)
    /\ [][FailureIsFinal]_vars
    /\ <>(setup_pc \notin Polling \cup {"enter"})
    /\ (emb_pc = "raised") ~> (item_pc = "raised")
\* The probe has raised after the whole timeout without a connection.
C31_Witness ==
    /\ setup_pc = "timed_out"
    /\ ~connected
    /\ elapsed >= TicksPerSecond * timeout
    /\ item_pc = "none"
\* A request of a call has failed and the call has raised.
FailedRequestFailedItem ==
    /\ item_pc = "raised"
    /\ Len(requests) >= 2

(***************************************************************************)
(* MlHandler.handle called from several threads on one handler, and main   *)
(* of agent.py in the sandbox at the other end of stdin / stdout.          *)
(***************************************************************************)
MaxTurns == 3
MaxLines == 2

END_SENTINEL == "__END__"
\* What a line of the agent's output can be: text of the model, text of
\* the model that has the sentinel in it, the line of the except branch,
\* the sentinel.
ModelTexts == {"text", "the marker is __END__"}
Line(r, s) == [req |-> r, text |-> s]
\* END_SENTINEL in line
SentinelIn(line) == line.text \in {END_SENTINEL, "the marker is __END__"}

InitMl ==
    /\ N_WORKERS = 1 /\ WORKERS_PER_GPU = 1
    /\ IdleVolume /\ IdleDriver /\ IdlePlan /\ IdleScan /\ IdleWorker
    /\ IdleEmbed /\ IdleSetup /\ IdleMl
    /\ manifest_file = "absent"

\* handle(prompt, thread_ts, say) is called: session and request are built.
HandleCall(t) ==
    /\ hpc[t] \in {"idle", "done", "raised"}
    /\ turns < MaxTurns
    /\ turns' = turns + 1
    /\ hreq' = [hreq EXCEPT ![t] = turns + 1]
    /\ hlines' = [hlines EXCEPT ![t] = << >>]
    /\ hpc' = [hpc EXCEPT ![t] = "lock"]
    /\ UNCHANGED << cfgVars, volVars, drvVars, planVars, scanVars, loadVars,
                    wrkVars, embVars, setupVars, ml_lock, _sandbox, stdin,
                    _stdout, agent >>

\* with self._lock:
HandleAcquire(t) ==
    /\ hpc[t] = "lock"
    /\ ml_lock = NoThread
    /\ ml_lock' = t
    /\ hpc' = [hpc EXCEPT ![t] = "ensure"]
    /\ UNCHANGED << cfgVars, volVars, drvVars, planVars, scanVars, loadVars,
                    wrkVars, embVars, setupVars, _sandbox, stdin, _stdout,
                    agent, hreq, hlines, turns >>

\* _ensure_sandbox: a sandbox that is missing or has exited is replaced,
\* and with it the iterator over its stdout.
HandleEnsure(t) ==
    /\ hpc[t] = "ensure"
    /\ IF _sandbox # "running"
       THEN /\ _sandbox' = "running"
            /\ stdin' = << >> /\ _stdout' = << >> /\ agent' = NoAgent
       ELSE UNCHANGED << _sandbox, stdin, _stdout, agent >>
    /\ hpc' = [hpc EXCEPT ![t] = "write"]
    /\ UNCHANGED << cfgVars, volVars, drvVars, planVars, scanVars, loadVars,
                    wrkVars, embVars, setupVars, ml_lock, hreq, hlines,
                    turns >>

\* stdin.write(request + "\n"); stdin.drain()
HandleWrite(t) ==
    /\ hpc[t] = "write"
    /\ _sandbox = "running"
    /\ stdin' = Append(stdin, hreq[t])
    /\ hpc' = [hpc EXCEPT ![t] = "read"]
    /\ UNCHANGED << cfgVars, volVars, drvVars, planVars, scanVars, loadVars,
                    wrkVars, embVars, setupVars, ml_lock, _sandbox, _stdout,
                    agent, hreq, hlines, turns >>

\* The sandbox has exited since _is_alive looked: the write raises out of
\* handle and the with statement releases the lock, or the write is
\* accepted and the read meets the end of the stream.
HandleWriteExited(t) ==
    /\ hpc[t] = "write"
    /\ _sandbox = "exited"
    /\ \/ hpc' = [hpc EXCEPT ![t] = "raised"] /\ ml_lock' = NoThread
       \/ hpc' = [hpc EXCEPT ![t] = "read"] /\ UNCHANGED ml_lock
    /\ UNCHANGED << cfgVars, volVars, drvVars, planVars, scanVars, loadVars,
                    wrkVars, embVars, setupVars, _sandbox, stdin, _stdout,
                    agent, hreq, hlines, turns >>

\* One pass of `for line in self._stdout`: a line with the sentinel in it
\* ends the loop and the with block, any other is appended to lines.
HandleReadLine(t) ==
    /\ hpc[t] = "read"
    /\ _stdout # << >>
    /\ _stdout' = Tail(_stdout)
    /\ IF SentinelIn(Head(_stdout))
       THEN /\ hpc' = [hpc EXCEPT ![t] = "say"]
            /\ ml_lock' = NoThread
            /\ UNCHANGED hlines
       ELSE /\ hlines' = [hlines EXCEPT ![t] = Append(@, Head(_stdout))]
            /\ UNCHANGED << hpc, ml_lock >>
    /\ UNCHANGED << cfgVars, volVars, drvVars, planVars, scanVars, loadVars,
                    wrkVars, embVars, setupVars, _sandbox, stdin, agent,
                    hreq, turns >>

\* The stream of an exited sandbox is exhausted: the for loop ends.
HandleReadEof(t) ==
    /\ hpc[t] = "read"
    /\ _stdout = << >>
    /\ _sandbox = "exited"
    /\ hpc' = [hpc EXCEPT ![t] = "say"]
    /\ ml_lock' = NoThread
    /\ UNCHANGED << cfgVars, volVars, drvVars, planVars, scanVars, loadVars,
                    wrkVars, embVars, setupVars, _sandbox, stdin, _stdout,
                    agent, hreq, hlines, turns >>

\* response = "\n".join(lines).strip(); say(response or ...)
HandleSay(t) ==
    /\ hpc[t] = "say"
    /\ hpc' = [hpc EXCEPT ![t] = "done"]
    /\ UNCHANGED << cfgVars, volVars, drvVars, planVars, scanVars, loadVars,
                    wrkVars, embVars, setupVars, ml_lock, _sandbox, stdin,
                    _stdout, agent, hreq, hlines, turns >>

\* main of agent.py: for line in sys.stdin: request = json.loads(...)
AgentRead ==
    /\ _sandbox = "running"
    /\ agent.pc = "stdin"
    /\ stdin # << >>
    /\ agent' = [pc |-> "run", req |-> Head(stdin), printed |-> 0]
    /\ stdin' = Tail(stdin)
    /\ UNCHANGED << cfgVars, volVars, drvVars, planVars, scanVars, loadVars,
                    wrkVars, embVars, setupVars, ml_lock, _sandbox, _stdout,
                    hpc, hreq, hlines, turns >>

\* Agent.run prints a line of the model's answer.
AgentPrint(s) ==
    /\ _sandbox = "running"
    /\ agent.pc = "run"
    /\ agent.printed < MaxLines
    /\ _stdout' = Append(_stdout, Line(agent.req, s))
    /\ agent' = [agent EXCEPT !.printed = @ + 1]
    /\ UNCHANGED << cfgVars, volVars, drvVars, planVars, scanVars, loadVars,
                    wrkVars, embVars, setupVars, ml_lock, _sandbox, stdin,
                    hpc, hreq, hlines, turns >>

\* Agent.run returns.
AgentRunReturns ==
    /\ _sandbox = "running"
    /\ agent.pc = "run"
    /\ agent' = [agent EXCEPT !.pc = "end"]
    /\ UNCHANGED << cfgVars, volVars, drvVars, planVars, scanVars, loadVars,
                    wrkVars, embVars, setupVars, ml_lock, _sandbox, stdin,
                    _stdout, hpc, hreq, hlines, turns >>

\* Agent.run raises an Exception: print(f"Error: {e}"), client reset.
AgentRunRaises ==
    /\ _sandbox = "running"
    /\ agent.pc = "run"
    /\ _stdout' = Append(_stdout, Line(agent.req, "Error: e"))
    /\ agent' = [agent EXCEPT !.pc = "end"]
    /\ UNCHANGED << cfgVars, volVars, drvVars, planVars, scanVars, loadVars,
                    wrkVars, embVars, setupVars, ml_lock, _sandbox, stdin,
                    hpc, hreq, hlines, turns >>

\* print(END_SENTINEL, flush=True), and back to the for loop.
AgentEnd ==
    /\ _sandbox = "running"
    /\ agent.pc = "end"
    /\ _stdout' = Append(_stdout, Line(agent.req, END_SENTINEL))
    /\ agent' = [agent EXCEPT !.pc = "stdin"]
    /\ UNCHANGED << cfgVars, volVars, drvVars, planVars, scanVars, loadVars,
                    wrkVars, embVars, setupVars, ml_lock, _sandbox, stdin,
                    hpc, hreq, hlines, turns >>

\* The sandbox exits (its timeout, a crash of the agent): poll() gives an
\* exit code from now on, what was printed can still be read.
SandboxExits ==
    /\ _sandbox = "running"
    /\ _sandbox' = "exited"
    /\ UNCHANGED << cfgVars, volVars, drvVars, planVars, scanVars, loadVars,
                    wrkVars, embVars, setupVars, ml_lock, stdin, _stdout,
                    agent, hpc, hreq, hlines, turns >>

NextMl ==
    \/ \E t \in Threads :
          \/ HandleCall(t)
          \/ HandleAcquire(t)
          \/ HandleEnsure(t)
          \/ HandleWrite(t)
          \/ HandleWriteExited(t)
          \/ HandleReadLine(t)
          \/ HandleReadEof(t)
          \/ HandleSay(t)
    \/ AgentRead
    \/ \E s \in ModelTexts : AgentPrint(s)
    \/ AgentRunReturns
    \/ AgentRunRaises
    \/ AgentEnd
    \/ SandboxExits

SpecMl == InitMl /\ [][NextMl]_vars

\* C32: under concurrent handle calls on one handler the turns on the
\* sandbox are serialized: each call's response consists only of the lines
\* the agent printed for that call's own request, up to the END sentinel
\* the agent emits exactly once after each request (also when the agent's
\* run raised), and lines of different requests are never mixed.
C32_ResponseIsOwnLines ==
    \A t \in Threads :
        \A k \in 1..Len(hlines[t]) : hlines[t][k].req = hreq[t]

\* What holds of the code: one call at a time is between the write of its
\* request and the end of its read, and the agent prints one sentinel line
\* per request it has taken, whether its run returned or raised.
InTurn(t) == hpc[t] \in {"ensure", "write", "read"}
TurnsSerialized ==
    /\ \A t \in Threads : InTurn(t) <=> ml_lock = t
    /\ \A t, u \in Threads : InTurn(t) /\ InTurn(u) => t = u
OneSentinelPerRequest ==
    LET replaced == _sandbox # "running" /\ _sandbox' = "running" IN
    /\ agent.pc = "run" /\ agent'.pc # "run" => agent'.pc = "end" \/ replaced
    /\ agent.pc = "end" /\ agent' # agent =>
          \/ /\ agent'.pc = "stdin"
             /\ _stdout' = Append(_stdout, Line(agent.req, END_SENTINEL))
          \/ replaced
SentinelAfterEveryRequest == [][OneSentinelPerRequest]_vars

\* Every work item of the run in flight that has written its staged
\* manifest has one of its own: none was overwritten by a sibling.
StagingPathsDistinct ==
    \A t \in Threads :
        pc[t] \in {"embed", "finalize"} =>
            Cardinality({k \in 1..Len(run[t].items) : run[t].items[k].st = "ok"})
                <= Cardinality(DOMAIN wman)
\* A step that changes manifest.json is a step of Finalize; a step of a
\* worker changes nothing but its own staged manifest and the collection.
OnlyFinalizeWritesManifest ==
    /\ (manifest' # manifest \/ manifest_file' # manifest_file)
          => last'.op = "finalize"
    /\ (wman' # wman /\ last'.op # "finalize") =>
          \E k \in 1..MaxItems :
             /\ DOMAIN wman' = DOMAIN wman \cup {WorkerId(k)}
             /\ \A i \in DOMAIN wman : i # WorkerId(k) => wman'[i] = wman[i]

\* C15: workers never write the shared manifest: each writes only its own
\* worker-scoped staging artifact, no two workers of one run write the same
\* staging path, and manifest.json is written only by Finalize.
C15_WorkersStageOnly == []StagingPathsDistinct /\ [][OnlyFinalizeWritesManifest]_vars

\* Two work items of one run have each staged a manifest.
C15_Witness ==
    \E t \in Threads :
        /\ pc[t] = "embed"
        /\ Cardinality({k \in 1..Len(run[t].items) : run[t].items[k].st = "ok"}) = 2
        /\ Cardinality(DOMAIN wman) = 2
        /\ manifest = EmptyMap

\* The call has left the loop over its documents, by its end or by an
\* exception.
ProcessingEnded(c) ==
    wpc[c] \notin {"idle", "processing"} /\ wwork[c].type \in KnownTypes
TextTuples(c) ==
    {TupleOf(d, c) : d \in {x \in Range(WorkDocs(wwork[c])) : content[x] = "text"}}
SkippedTuples(c) ==
    {TupleOf(d, c) : d \in {x \in Range(WorkDocs(wwork[c])) : content[x] # "text"}}

\* C14: within one work item, a document whose extraction fails or whose
\* content is blank is skipped and the item completes with the chunks of
\* its other documents, for a 'files' item as for a slice of an archive:
\* the call does not raise, it holds the tuples of every document with text
\* and none of a failed or blank document.
C14_BadDocumentSkipped ==
    \A c \in Calls :
        ProcessingEnded(c) =>
            /\ wpc[c] # "raised"
            /\ TextTuples(c) \subseteq wmine[c]
            /\ SkippedTuples(c) \cap wmine[c] = {}

\* The part of C14 the code keeps: the entries of an archive.
BadArchiveEntrySkipped ==
    \A c \in Calls :
        (ProcessingEnded(c) /\ wwork[c].type = "zip_entries") =>
            /\ wpc[c] # "raised"
            /\ wmine[c] = TextTuples(c)

\* The phase of an embed call: Processing while it goes through its
\* documents, Flushing inside _flush_to_chroma, then the write of its
\* staged manifest, then its return.  An exception ends the call.
Flushing ==
    {"flush_return", "flush_wait", "flush_locked", "flush_unlock", "flush_reset"}
PhaseRank(p) ==
    CASE p = "idle" -> 0
      [] p = "processing" -> 1
      [] p \in Flushing -> 2
      [] p = "manifest" -> 3
      [] p = "done" -> 4
      [] OTHER -> 5

\* A call's phase never goes back and no phase is passed over.
PhasesInOrder ==
    \A c \in Calls :
        /\ PhaseRank(wpc'[c]) >= PhaseRank(wpc[c])
        /\ wpc'[c] # "raised" => PhaseRank(wpc'[c]) <= PhaseRank(wpc[c]) + 1
        /\ wpc'[c] = "raised" => wpc[c] \in {"processing", "raised"}
\* A write to the collection is the upsert of a call that has gone through
\* every document of its work item.
UpsertAfterProcessing ==
    /\ collection' # collection =>
          \E c \in Calls : wpc[c] = "flush_locked" /\ wpc'[c] = "flush_unlock"
    /\ \A c \in Calls :
          (wpc[c] = "flush_locked" /\ wpc'[c] = "flush_unlock") =>
              wdone[c] = Len(WorkDocs(wwork[c]))
\* A staged manifest is written by a call whose _flush_to_chroma has
\* returned: it is past the upsert and does not hold the lock.
ManifestAfterFlush ==
    wman' # wman =>
        \E c \in Calls :
            /\ wpc[c] = "manifest" /\ wpc'[c] = "done"
            /\ _chroma_lock # c
            /\ wman' = ((c - 1) :> WorkerManifest(wwork[c], docs)) @@ wman
            /\ collection' = collection

C18_FlushUpsertsOwnTuples ==
    \A c \in Calls :
        wpc[c] = "done" =>
            /\ wflushed[c] = wmine[c]
            /\ wmine[c] \subseteq collection
            /\ Cardinality(wmine[c]) = wtotal[c]

\* What holds of the code: a call that ran with no other call on the
\* object has upserted exactly its own tuples.
SoloCallFlushesOwnTuples ==
    \A c \in Calls :
        (wpc[c] = "done" /\ \A o \in Calls \ {c} : wpc[o] = "idle") =>
            /\ wflushed[c] = wmine[c]
            /\ wmine[c] \subseteq collection

\* The call is inside `with self._chroma_lock`, where the upsert is made.
InUpsert(c) == wpc[c] \in {"flush_locked", "flush_unlock"}

\* C19: within one worker process the writes to the shared vector-store
\* handle are mutually exclusive: at no time are two concurrent embed calls
\* both inside an upsert on the shared collection.
C19_UpsertsMutuallyExclusive ==
    \A c, o \in Calls :
        (InUpsert(c) /\ InUpsert(o)) => (c = o /\ _chroma_lock = c)

\* One call is inside the upsert while another waits for the lock.
C19_Witness ==
    \E c, o \in Calls :
        /\ wpc[c] = "flush_locked"
        /\ wpc[o] = "flush_wait"
        /\ _chroma_lock = c

\* A slice of archive z dispatched by run t came back as an exception.
SliceFailed(t, z) ==
    \E k \in 1..Len(run[t].items) :
        /\ run[t].batches[k].type = "zip_entries"
        /\ run[t].batches[k].zip_path = z
        /\ run[t].items[k].st = "raised"
\* The files named by the manifests the work items of run t have staged.
StagedNames(t) ==
    UNION {DOMAIN wman[WorkerId(k)] :
              k \in {j \in 1..Len(run[t].items) : run[t].items[j].st = "ok"}}

\* C21: an archive is recorded as indexed only if every one of its entry
\* slices was processed successfully: when at least one slice of an archive
\* has failed, no partial manifest the run hands to Finalize for merging
\* carries that archive's fingerprint.
C21_FailedSliceKeepsArchiveOut ==
    \A t \in Threads : \A z \in ZipFiles :
        (pc[t] = "finalize" /\ SliceFailed(t, z)) => z \notin StagedNames(t)

\* What holds of the code: a regular file is in one work item only, so the
\* files of a failed 'files' item are in no manifest the run has staged.
FailedFilesItemKeepsFilesOut ==
    \A t \in Threads :
        pc[t] = "finalize" =>
            \A k \in 1..Len(run[t].items) :
                (run[t].items[k].st = "raised"
                    /\ run[t].batches[k].type = "files") =>
                    Range(run[t].batches[k].paths) \cap StagedNames(t) = {}

\* The call was given a work item of unknown type and has raised.
RaisedOnUnknownType(c) == wpc[c] = "raised" /\ wwork[c].type \notin KnownTypes
\* The steps of call c that do not depend on another call.
CallCanStep(c) ==
    ENABLED (\/ WorkerProcessDoc(c) \/ WorkerFlushCheck(c)
             \/ WorkerFlushReturn(c) \/ WorkerFlushAcquire(c)
             \/ WorkerFlushUpsert(c) \/ WorkerFlushRelease(c)
             \/ WorkerFlushReset(c) \/ WorkerWriteManifest(c))

\* C22: a work item with an unknown type makes its embed call raise before
\* anything is written: the call has upserted nothing and has written no
\* worker-scoped manifest, its result is the exception, and every other
\* call of the process that is under way can still take its next step to
\* its own result.
C22_UnknownTypeRaisesCleanly ==
    \A c \in Calls :
        /\ (wpc[c] # "idle" /\ wwork[c].type \notin KnownTypes) =>
              /\ wpc[c] \in {"processing", "raised"}
              /\ wflushed[c] = {} /\ wmine[c] = {} /\ wtotal[c] = 0
              /\ (c - 1) \notin DOMAIN wman
        /\ RaisedOnUnknownType(c) =>
              \A o \in Calls \ {c} :
                  wpc[o] \notin {"idle", "done", "raised"} => CallCanStep(o)

\* A call raised on an unknown type and the other call of the process has
\* upserted its tuples, written its manifest and returned.
C22_Witness ==
    \E c, o \in Calls :
        /\ RaisedOnUnknownType(c)
        /\ wpc[o] = "done" /\ wflushed[o] # {}
        /\ (o - 1) \in DOMAIN wman
        /\ collection = wflushed[o]

\* Every call of the process was given a work item and has returned its
\* (worker_id, chunk_count); every document of the items has text, so what
\* a call accumulates does not depend on a reader.
AllCallsSucceeded ==
    /\ \A c \in Calls : wpc[c] = "done"
    /\ \A c \in Calls : \A d \in Range(WorkDocs(wwork[c])) : content[d] = "text"
\* The documents that have a chunk in the collection.
DocsIn(coll) == {Doc(r.source, r.filename) : r \in coll}

\* C26: for a fixed set of work items that all succeed, the final vector
\* collection and the manifests are the same for every order and
\* interleaving in which the workers execute and complete: the collection
\* holds the chunks of every document of every item, and every item has
\* its manifest.
C26_OrderIndependentResult ==
    AllCallsSucceeded =>
        /\ DocsIn(collection) = UNION {Range(WorkDocs(wwork[c])) : c \in Calls}
        /\ wman = [i \in {c - 1 : c \in Calls} |->
                      WorkerManifest(wwork[i + 1], docs)]

\* What holds of the code: the staged manifests do not depend on the
\* interleaving, and neither does the chunk count each call returns.
StagedManifestsOrderIndependent ==
    AllCallsSucceeded =>
        /\ wman = [i \in {c - 1 : c \in Calls} |->
                      WorkerManifest(wwork[i + 1], docs)]
        /\ \A c \in Calls : wtotal[c] = Len(WorkDocs(wwork[c]))

(***************************************************************************)
(* Claims about a run of reindex                                           *)
(***************************************************************************)
\* The finalize of a run is called when every work item it dispatched has
\* come back from the map, as a result or as an exception.
FinalizeAfterEveryResult ==
    \A t \in Threads :
        (~run[t].finalized /\ run'[t].finalized) =>
            /\ pc[t] = "finalize"
            /\ run[t].items # << >>
            /\ AllCollected(run[t].items)
\* reload_fn is entered from the return of the run's finalize and from
\* nowhere else, so once in a run; it is left by its return or by a call it
\* makes.
ReloadOnceAfterFinalize ==
    \A t \in Threads :
        /\ (pc[t] # "reload" /\ pc'[t] = "reload") =>
              /\ pc[t] = "finalize"
              /\ ~run[t].finalized /\ run'[t].finalized
              /\ last'.op = "finalize"
        /\ (pc[t] = "reload" /\ pc'[t] # "reload") =>
              pc'[t] \in {"idle", "waiting"}

\* C23: in every run with a non-empty worklist, Finalize starts only after
\* every dispatched work item has delivered a result or an error, and the
\* reload hook is invoked at most once and only after Finalize has returned.
C23_FinalizeThenReload ==
    [][FinalizeAfterEveryResult /\ ReloadOnceAfterFinalize]_vars

\* A run of two work items has finalized and is inside its reload hook.
C23_Witness ==
    \E t \in Threads :
        /\ pc[t] = "reload" /\ run[t].finalized
        /\ Len(run[t].items) = 2
        /\ \A k \in 1..2 : run[t].items[k].st = "ok"

\* The worklist _scan gives the run of caller t in the present state.
ScanOf(t) ==
    _scan(call[t].force, docs, _load_manifest(manifest_file, manifest).entries)
EmptyMessages == {"no_documents", "already_indexed"}
\* The step reindex takes from its scan when the worklist is empty.
EmptyWorklistReturns ==
    \A t \in Threads :
        (pc[t] = "scan" /\ pc'[t] # "scan" /\ ScanOf(t) = << >>) =>
            /\ pc'[t] = "idle" /\ lock' = NoThread
            /\ ret'[t].kind \in EmptyMessages
            /\ run'[t].items = run[t].items
            /\ run'[t].finalized = run[t].finalized
            /\ last'.op # "finalize"
            /\ manifest' = manifest /\ manifest_file' = manifest_file
            /\ collection' = collection
            /\ wman' = wman /\ pkl' = pkl

\* C24: when Scan yields an empty worklist, reindex returns a message
\* without dispatching any worker, without running Finalize and without
\* invoking the reload hook, and leaves the manifest and the vector
\* collection unchanged.
C24_EmptyWorklistChangesNothing == [][EmptyWorklistReturns]_vars

\* A reindex over an indexed, unchanged store has returned its message and
\* the index of the earlier run is in place.
C24_Witness ==
    \E t \in Threads :
        /\ pc[t] = "idle" /\ ret[t].kind = "already_indexed"
        /\ last.op # "finalize"
        /\ manifest # EmptyMap /\ collection # {}

\* No caller whose reindex has ended holds the lock.
LockHeldOnlyInsideRun == \A t \in Threads : lock = t => pc[t] # "idle"
\* A request that waits while no run is under way can take the lock.
WaiterEntersWhenNoRun ==
    \A t \in Threads :
        (pc[t] = "waiting" /\ \A u \in Threads : ~InRun(u)) => ENABLED Acquire(t)
\* Every step by which a caller leaves its run releases the lock.
ExitReleasesLock ==
    \A t \in Threads :
        (pc[t] \in {"scan", "embed", "finalize", "reload"} /\ pc'[t] = "idle")
            => (lock = t /\ lock' = NoThread)

\* C25: the run-level lock is released on every exit path of reindex (empty
\* worklist, normal completion, an exception from the phases, the status
\* callback or the reload hook), so a request issued after the earlier runs
\* have ended is not blocked: it can take the lock.
C25_LockReleasedOnEveryExit ==
    /\ [](LockHeldOnlyInsideRun /\ WaiterEntersWhenNoRun)
    /\ [][ExitReleasesLock]_vars

\* A run has ended by an exception and the next request waits with the
\* lock free.
C25_Witness ==
    \E t, u \in Threads :
        /\ t # u
        /\ pc[t] = "idle" /\ ret[t].kind = "raised" /\ run[t].items # << >>
        /\ pc[u] = "waiting" /\ lock = NoThread

\* C28: after Finalize returns successfully, no worker-scoped staging
\* artifact of the run remains on the volume.
C28_FinalizeRemovesStaging ==
    last.op = "finalize" => (pkl = EmptyMap /\ wman = EmptyMap)

\* The finalize of a run has returned: both workers of the run had staged
\* their records and nothing is staged now.
C28_Witness ==
    \E t \in Threads :
        /\ last = FinalizeOp(run[t].force, t) /\ run[t].finalized
        /\ Len(run[t].items) = 2
        /\ \A k \in 1..2 : run[t].items[k].st = "ok" /\ run[t].items[k].recs # {}
        /\ pkl = EmptyMap

\* C4: a reindex(force=false) that begins when an earlier reindex(force=false)
\* has finalized and no file has changed since dispatches no worker (nothing
\* is embedded or upserted) and leaves the manifest as it was.
C4_SecondRunDoesNothing ==
    \A t \in Threads :
        (run[t].quiet /\ ~run[t].force) =>
            /\ run[t].items = << >>
            /\ ~run[t].manifest_changed

\* C5: when exactly one of the N dispatched work items of a run raised, the
\* others ran to their end, Finalize ran and merged them, and the summary the
\* run returned states a failed-unit count above zero.
C5_OneFailureStillFinalizes ==
    \A t \in Threads :
        (/\ pc[t] = "idle"
         /\ ret[t].kind # "raised"
         /\ Len(run[t].items) >= 2
         /\ AllCollected(run[t].items)
         /\ Failed(run[t].items) = 1)
        => /\ run[t].finalized
           /\ ret[t].failed > 0

OneAtATime ==
    /\ \A t, u \in Threads : (InRun(t) /\ InRun(u)) => t = u
    /\ \A t \in Threads : InRun(t) => lock = t
WaitersOnlyEnter ==
    \A t \in Threads :
        (pc[t] = "waiting" /\ pc'[t] # "waiting") =>
            /\ lock = NoThread
            /\ lock' = t
            /\ pc'[t] = "scan"

\* C7: at most one reindex run is active on the object at any time, and a
\* request that waits for the lock is never rejected: the only step it takes
\* is into the run, from its first phase, once the lock is free.
C7_OneRunAtATime == []OneAtATime /\ [][WaitersOnlyEnter]_vars

\* A request waits while another caller's run is in its finalize phase.
C7_Witness ==
    \E t, u \in Threads :
        t # u /\ pc[t] = "waiting" /\ lock = u /\ pc[u] = "finalize"

\* C8: the run-level lock is re-entrant: a reindex call made by the thread
\* that holds the lock can take the lock again.
C8_LockReentrant ==
    \A t \in Threads : (pc[t] = "waiting" /\ lock = t) => ENABLED Acquire(t)

FullManifest ==
    [f \in DOMAIN docs |-> << docs[f].st_mtime_ns, docs[f].st_size >>]

\* C9: Finalize leaves a manifest entry, for the current mtime and size, for
\* every file of the document store, also for those no worker of the run
\* processed.
C9_FinalizeWritesEveryFile ==
    last.op = "finalize" => manifest = FullManifest

\* A run has just finalized and the manifest holds a file the run did not
\* process.
C9_Witness ==
    /\ last.op = "finalize"
    /\ \E t \in Threads :
          /\ pc[t] = "reload"
          /\ DOMAIN manifest \ Range(run[t].files) # {}
          /\ Range(run[t].files) # {}

\* C10: Finalize is idempotent: for either force, a second Finalize right
\* after the first (no worker has run in between) leaves the collection and
\* the manifest as the first left them.
C10_FinalizeIdempotent ==
    last.op = "finalize" =>
        LET again == finalize_index(last.force, collection, pkl, docs)
        IN  /\ again.collection = collection
            /\ again.manifest = manifest

\* The part of C10 the code keeps: without force, a second Finalize changes
\* nothing.
FinalizeIdempotentUnforced ==
    last.op = "finalize" =>
        LET again == finalize_index(FALSE, collection, pkl, docs)
        IN  /\ again.collection = collection
            /\ again.manifest = manifest

\* C6: right after the Finalize of a reindex(force=true) all of whose work
\* items succeeded, the collection holds exactly the chunks this run's
\* workers produced: none from before the rebuild, none of this run missing.
C6_RebuildHoldsThisRunsChunks ==
    \A t \in Threads :
        (/\ last = FinalizeOp(TRUE, t)
         /\ run[t].force
         /\ run[t].finalized
         /\ InRun(t) \/ pc[t] = "idle"
         /\ run[t].items # << >>
         /\ \A k \in 1..Len(run[t].items) : run[t].items[k].st = "ok")
        => collection = UNION {run[t].items[k].recs : k \in 1..Len(run[t].items)}

====
